---- MODULE Spec2Model ----
(***************************************************************************)
(* storygamer: the story loader (parser::parse) and the play engine        *)
(* (app::core::Game).  A story (settings + page documents) is chosen at    *)
(* Init, loaded by Load, and then driven by FollowLink / PopPrompt /       *)
(* PromptSubmit.                                                           *)
(***************************************************************************)
EXTENDS Integers, Sequences, FiniteSets, TLC

VARIABLES
  build,            \* "debug" | "release": the profile decides i32 overflow
  settings,         \* Settings: pages, variables, items, entrypoint
  docs,             \* the parsed page documents, id -> Page (read_pages)
  phase,            \* "start" | "playing" | "failed"
  load_result,      \* the Err of Settings::read / parser::parse, or NoErr
  pages,            \* the cleaned story graph, id -> Page
  starting_page,    \* Game.starting_page
  current_page,     \* Game.current_page
  current_link_idx, \* Game.current_link_idx : Option<usize>
  history,          \* Game.history : Vec<HistoryItem>
  prompt_queue,     \* Game.prompt_queue : VecDeque<Prompt>
  variables,        \* Game.variables
  item_defs,        \* Game.item_defs
  items,            \* Game.items : name -> VecDeque<Item>
  panic,            \* NoPanic, or the panic that ended the process
  dialog,           \* the prompt popped by the caller and not yet answered
  calls,            \* number of follow_link calls made so far
  last,             \* record of the last engine call (history variable)
  enqueued,         \* every prompt a Prompt action pushed, in order (history variable)
  delivered         \* every prompt pop_prompt returned, in order (history variable)

vars == <<build, settings, docs, phase, load_result, pages, starting_page,
          current_page, current_link_idx, history, prompt_queue, variables,
          item_defs, items, panic, dialog, calls, last, enqueued, delivered>>

(***************************************************************************)
(* Bounds                                                                  *)
(***************************************************************************)
MaxCalls == 3
MaxDepth == 12

(***************************************************************************)
(* Option<T>                                                               *)
(***************************************************************************)
None == <<>>
Some(x) == <<x>>
IsSome(o) == o # <<>>
Unwrap(o) == o[1]

(***************************************************************************)
(* i32                                                                     *)
(***************************************************************************)
I32_MAX == 2147483647
I32_MIN == (0 - I32_MAX) - 1

\* x + y overflows i32
i32_overflows(x, y) ==
  \/ (y > 0 /\ x > I32_MAX - y)
  \/ (y < 0 /\ x < I32_MIN - y)

\* two's-complement x + y, computed without leaving the i32 range
i32_wrapping_add(x, y) ==
  IF y > 0 /\ x > I32_MAX - y THEN ((x - I32_MAX) - 1) + ((y - I32_MAX) - 1)
  ELSE IF y < 0 /\ x < I32_MIN - y THEN ((x + I32_MAX) + 1) + ((y + I32_MAX) + 1)
  ELSE x + y

clamp(x, lo, hi) == IF x < lo THEN lo ELSE IF x > hi THEN hi ELSE x

\* Bounded::clamped for i32 seen as i32
clamped(x) == clamp(x, I32_MIN, I32_MAX)

\* ConvertBounded::convert_bounded::<i32> for i32: clamp, then `as i32`
convert_bounded(x) == clamped(x)

(***************************************************************************)
(* Values of the data model                                                *)
(***************************************************************************)
Num(x)  == [t |-> "Num",  v |-> x]
Bool(x) == [t |-> "Bool", v |-> x]
Str(x)  == [t |-> "Str",  v |-> x]

type_(var) == var.t
type_eq(var, other) == type_(var) = type_(other)

\* LinkDest; Page(Left(id)) is a raw page ID, Page(Right(page)) a graph edge
PageLeft(id)  == [k |-> "Page", side |-> "Left",  id |-> id, msg |-> ""]
PageRight(id) == [k |-> "Page", side |-> "Right", id |-> id, msg |-> ""]
CurrentPage   == [k |-> "CurrentPage", side |-> "", id |-> "", msg |-> ""]
PrevPage      == [k |-> "PrevPage", side |-> "", id |-> "", msg |-> ""]
EndGame(m)    == [k |-> "EndGame", side |-> "", id |-> "", msg |-> m]

\* LinkAction
SetVar(n, val)    == [a |-> "SetVar", name |-> n, value |-> val]
ModNum(n, d)      == [a |-> "ModNum", name |-> n, value |-> d]
ToggleBool(n)     == [a |-> "ToggleBool", name |-> n]
SetDest(d)        == [a |-> "SetDest", dest |-> d]
Prompt(txt, var)  == [a |-> "Prompt", text |-> txt, variable |-> var]
AcquireItem(n)    == [a |-> "AcquireItem", name |-> n]
DropItem(n)       == [a |-> "DropItem", name |-> n]
UseItem(n)        == [a |-> "UseItem", name |-> n]

\* Condition
And(cs)      == [c |-> "And", children |-> cs]
Or(cs)       == [c |-> "Or", children |-> cs]
Op(n, o, v)  == [c |-> "Op", name |-> n, op |-> o, value |-> v]
HasItem(n)   == [c |-> "HasItem", name |-> n]
\* a negation as a page document writes it and as parse matches on it
Not(cond)    == [c |-> "Not", child |-> cond]

LinkTrigger(cond, acts) == [condition |-> cond, actions |-> acts]
Link(d, acts, trigs)    == [dest |-> d, actions |-> acts, triggers |-> trigs]
Page(id, links)         == [id |-> id, links |-> links, parents |-> <<>>]
ItemDef(max, eff)       == [max_uses |-> max, effect |-> eff]

\* errors::Error
NoErr == [e |-> "none"]
undeclared_page_id(id)     == [e |-> "UndeclaredPageID", id |-> id]
undeclared_variable(n)     == [e |-> "UndeclaredVariable", name |-> n]
undeclared_item(n)         == [e |-> "UndeclaredItem", name |-> n]
parse_error                == [e |-> "ParseError"]
bad_value_type(val, exp)   == [e |-> "BadValueType", value |-> val, expected |-> exp]
bad_variable_type(n, vt, exp) ==
  [e |-> "BadVariableType", var_name |-> n, var_type |-> vt, expected |-> exp]
\* impl Display for VarType
VarType_Display(t) ==
  CASE t = "Num" -> "number" [] t = "Bool" -> "boolean" [] t = "Str" -> "string"

\* Error::to_string_vec for the load errors about a variable: the parts of
\* the message, each part the pieces its format string puts together (the
\* quotation marks around a name left out)
to_string_vec(err) ==
  CASE err.e = "UndeclaredVariable" ->
         << <<"undeclared variable ", err.name>> >>
    [] err.e = "BadVariableType" ->
         << <<"variable ", err.var_name, " has wrong type">>,
            <<"expected a ", VarType_Display(err.var_type),
              ", but got a ", VarType_Display(err.expected)>> >>
    [] OTHER -> << >>

NoPanic == "none"

(***************************************************************************)
(* Settings::read: serde deserialisation of the settings document          *)
(***************************************************************************)
ITEM_USES_MIN == 1
ITEM_USES_MAX == 32767
\* the range test that lets a maximum of zero through
ITEM_USES_RANGE_from_zero(n) == 0 <= n /\ n <= ITEM_USES_MAX

\* ITEM_USES_RANGE.contains(&max_uses)
ITEM_USES_RANGE_contains(n) == ITEM_USES_MIN <= n /\ n <= ITEM_USES_MAX

\* deserialize_item_defs: a max_uses outside the range is a deserialize error
deserialize_item_defs(raw) ==
  IF \E n \in DOMAIN raw :
       IsSome(raw[n].max_uses) /\ ~ITEM_USES_RANGE_contains(Unwrap(raw[n].max_uses))
  THEN [err |-> [e |-> "Deserialize"], defs |-> raw]
  ELSE [err |-> NoErr, defs |-> raw]

(***************************************************************************)
(* parser::parse: the clean_* closures.  `st` is the state of one pass:    *)
(*   err     the first Err met (the pass stops there),                     *)
(*   parents the back-references recorded so far, page id -> Seq(page id). *)
(* `cfg` is the Settings; `keys` the keys of pages_clone.                  *)
(***************************************************************************)
\* clean_link_dest that leaves an unknown page ID in place instead of failing
clean_link_dest_lenient(st, cfg, keys, page, dest) ==
  IF dest.k = "Page" /\ dest.side = "Left" /\ dest.id \in keys
  THEN [st |-> IF dest.id # page
               THEN [st EXCEPT !.parents[dest.id] = Append(@, page)]
               ELSE st,
        out |-> PageRight(dest.id)]
  ELSE [st |-> st, out |-> dest]

clean_link_dest(st, cfg, keys, page, dest) ==
  IF dest.k = "Page" /\ dest.side = "Left"
  THEN IF dest.id \notin keys
       THEN [st |-> [st EXCEPT !.err = undeclared_page_id(dest.id)], out |-> dest]
       ELSE [st |-> IF dest.id # page  \* try_borrow_mut fails on the page being cleaned
                    THEN [st EXCEPT !.parents[dest.id] = Append(@, page)]
                    ELSE st,
             out |-> PageRight(dest.id)]
  ELSE [st |-> st, out |-> dest]

\* `*dest = clean_link_dest(...)?` inside the SetDest arm
clean_action_dest(action, r) == [st |-> r.st, out |-> [action EXCEPT !.dest = r.out]]

clean_action(st, cfg, keys, page, action) ==
  LET fail(e) == [st |-> [st EXCEPT !.err = e], out |-> action]
      ok      == [st |-> st, out |-> action]
      vs      == cfg.variables
  IN CASE action.a = "SetVar" ->
            IF action.name \in DOMAIN vs
            THEN IF type_eq(vs[action.name], action.value) THEN ok
                 ELSE fail(bad_value_type(action.value, type_(vs[action.name])))
            ELSE fail(undeclared_variable(action.name))
       [] action.a = "ModNum" ->
            IF action.name \in DOMAIN vs
            THEN IF vs[action.name].t = "Num" THEN ok
                 ELSE fail(bad_variable_type(action.name, type_(vs[action.name]), "Num"))
            ELSE fail(undeclared_variable(action.name))
       [] action.a = "ToggleBool" ->
            IF action.name \in DOMAIN vs
            THEN IF vs[action.name].t = "Bool" THEN ok
                 ELSE fail(bad_variable_type(action.name, type_(vs[action.name]), "Bool"))
            ELSE fail(undeclared_variable(action.name))
       [] action.a = "SetDest" ->
            clean_action_dest(action, clean_link_dest(st, cfg, keys, page, action.dest))
       [] action.a = "Prompt" ->
            IF IsSome(action.variable) /\ Unwrap(action.variable) \notin DOMAIN vs
            THEN fail(undeclared_variable(Unwrap(action.variable)))
            ELSE ok
       [] action.a \in {"AcquireItem", "DropItem", "UseItem"} ->
            IF action.name \notin DOMAIN cfg.items
            THEN fail(undeclared_item(action.name))
            ELSE ok

\* returns the Err, or NoErr
clean_operation(cfg, operation) ==
  IF operation.name \notin DOMAIN cfg.variables
  THEN undeclared_variable(operation.name)
  ELSE LET var == cfg.variables[operation.name]
       IN IF operation.op \in {"GT", "GTE", "LT", "LTE"}
          THEN IF type_(var) # "Num"
               THEN bad_variable_type(operation.name, type_(var), "Num")
               ELSE IF type_(operation.value) # "Num"
                    THEN bad_value_type(operation.value, "Num")
                    ELSE NoErr
          ELSE NoErr

RECURSIVE clean_condition(_, _)
RECURSIVE clean_children(_, _, _)
\* the `?` on one child: `e` is what clean_condition returned for child i
clean_children_next(cfg, children, i, e) ==
  IF e # NoErr THEN e ELSE clean_children(cfg, children, i + 1)

\* the `for child in children.iter_mut()` loop with `?`
clean_children(cfg, children, i) ==
  IF i > Len(children) THEN NoErr
  ELSE clean_children_next(cfg, children, i, clean_condition(cfg, children[i]))

\* returns the Err, or NoErr
clean_condition(cfg, cond) ==
  CASE cond.c \in {"And", "Or"} -> clean_children(cfg, cond.children, 1)
    [] cond.c = "Op" -> clean_operation(cfg, cond)
    [] cond.c = "Not" -> clean_condition(cfg, cond.child)
    [] cond.c = "HasItem" ->
         IF cond.name \notin DOMAIN cfg.items THEN undeclared_item(cond.name) ELSE NoErr

RECURSIVE clean_actions(_, _, _, _, _, _)
\* the rest of the loop once action i was cleaned into `r`
clean_actions_next(cfg, keys, page, actions, i, r) ==
  clean_actions(r.st, cfg, keys, page, [actions EXCEPT ![i] = r.out], i + 1)

\* `for action in actions.iter_mut() { clean_action(action)?; }`
clean_actions(st, cfg, keys, page, actions, i) ==
  IF i > Len(actions) \/ st.err # NoErr THEN [st |-> st, out |-> actions]
  ELSE clean_actions_next(cfg, keys, page, actions, i,
                          clean_action(st, cfg, keys, page, actions[i]))

RECURSIVE clean_triggers(_, _, _, _, _, _)
\* the rest of the loop once the actions of trigger i were cleaned into `r`
clean_triggers_next(cfg, keys, page, triggers, i, r) ==
  clean_triggers(r.st, cfg, keys, page, [triggers EXCEPT ![i].actions = r.out], i + 1)

\* `clean_condition(&mut trigger.condition)?`, then the trigger's actions;
\* `e` is what clean_condition returned for trigger i
clean_trigger_actions(st, cfg, keys, page, triggers, i, e) ==
  IF e # NoErr
  THEN [st |-> [st EXCEPT !.err = e], out |-> triggers]
  ELSE clean_triggers_next(cfg, keys, page, triggers, i,
                           clean_actions(st, cfg, keys, page, triggers[i].actions, 1))

\* `for trigger in link.triggers.iter_mut()`: the condition, then the actions
clean_triggers(st, cfg, keys, page, triggers, i) ==
  IF i > Len(triggers) \/ st.err # NoErr THEN [st |-> st, out |-> triggers]
  ELSE clean_trigger_actions(st, cfg, keys, page, triggers, i,
                             clean_condition(cfg, triggers[i].condition))

\* the body of `for link in ...links.iter_mut()`
\* the link's own actions, cleaned last into `a`
clean_link_done(link, a) == [st |-> a.st, out |-> [link EXCEPT !.actions = a.out]]

\* the link's triggers were cleaned into `t`; then its actions
clean_link_actions(cfg, keys, page, link, t) ==
  IF t.st.err # NoErr THEN [st |-> t.st, out |-> link]
  ELSE clean_link_done([link EXCEPT !.triggers = t.out],
                       clean_actions(t.st, cfg, keys, page, link.actions, 1))

\* the link's destination was cleaned into `d`; then its triggers
clean_link_triggers(cfg, keys, page, link, d) ==
  IF d.st.err # NoErr THEN [st |-> d.st, out |-> link]
  ELSE clean_link_actions(cfg, keys, page, [link EXCEPT !.dest = d.out],
                          clean_triggers(d.st, cfg, keys, page, link.triggers, 1))

clean_link(st, cfg, keys, page, link) ==
  clean_link_triggers(cfg, keys, page, link,
                      clean_link_dest(st, cfg, keys, page, link.dest))

RECURSIVE clean_links(_, _, _, _, _, _)
\* the rest of the loop once link i was cleaned into `r`
clean_links_next(cfg, keys, page, links, i, r) ==
  clean_links(r.st, cfg, keys, page, [links EXCEPT ![i] = r.out], i + 1)

\* `for link in pages[page_id].borrow_mut().links.iter_mut()`
clean_links(st, cfg, keys, page, links, i) ==
  IF i > Len(links) \/ st.err # NoErr THEN [st |-> st, out |-> links]
  ELSE clean_links_next(cfg, keys, page, links, i,
                        clean_link(st, cfg, keys, page, links[i]))

RECURSIVE clean_pages(_, _, _, _, _)
\* the loop that returns after the first page it visits
clean_pages_first_only(cfg, ps, order, i, r) ==
  [st |-> r.st, out |-> [ps EXCEPT ![order[i]].links = r.out]]

\* the rest of the loop once the links of page order[i] were cleaned into `r`
clean_pages_next(cfg, ps, order, i, r) ==
  clean_pages(r.st, cfg, [ps EXCEPT ![order[i]].links = r.out], order, i + 1)

\* `for page_id in pages_clone.keys()`: `order` is the order the HashMap
\* yields its keys in, `ps` the page map being cleaned
clean_pages(st, cfg, ps, order, i) ==
  IF i > Len(order) \/ st.err # NoErr THEN [st |-> st, out |-> ps]
  ELSE IF order[i] \notin cfg.pages
  THEN [st |-> [st EXCEPT !.err = undeclared_page_id(order[i])], out |-> ps]
  ELSE clean_pages_next(cfg, ps, order, i,
                        clean_links(st, cfg, DOMAIN ps, order[i], ps[order[i]].links, 1))

\* what parse returns once the clean loop ended in `r`: err (NoErr on Ok),
\* panic, the cleaned page map and the entry page id
parse_result(cfg, raw, r) ==
  LET ps  == [id \in DOMAIN raw |-> [r.out[id] EXCEPT !.parents = r.st.parents[id]]]
  IN IF r.st.err # NoErr
     THEN [err |-> r.st.err, panic |-> NoPanic, pages |-> ps, entry |-> None]
     ELSE IF ~IsSome(cfg.entrypoint)     \* file_stem() is None
     THEN [err |-> [e |-> "Internal", what |-> "PathAttr"], panic |-> NoPanic,
           pages |-> ps, entry |-> None]
     ELSE IF Unwrap(cfg.entrypoint) \notin DOMAIN raw   \* pages.remove(..).unwrap()
     THEN [err |-> NoErr, panic |-> "unwrap on None (entry page)",
           pages |-> ps, entry |-> None]
     ELSE [err |-> NoErr, panic |-> NoPanic, pages |-> ps,
           entry |-> Some(Unwrap(cfg.entrypoint))]

\* the state the clean loop starts in: no error, no back-reference
clean_start(raw) == [err |-> NoErr, parents |-> [id \in DOMAIN raw |-> <<>>]]

\* the variants `enum Condition` declares: serde knows no other
ConditionVariants == {"And", "Or", "Op", "HasItem"}

RECURSIVE condition_deserializes(_)
\* whether Condition::deserialize accepts the written condition
condition_deserializes(c) ==
  /\ c.c \in ConditionVariants
  /\ (c.c \in {"And", "Or"} =>
        \A i \in DOMAIN c.children : condition_deserializes(c.children[i]))

\* whether serde_yaml::from_str::<Page> accepts the written page
page_deserializes(page) ==
  \A i \in DOMAIN page.links : \A k \in DOMAIN page.links[i].triggers :
     condition_deserializes(page.links[i].triggers[k].condition)

\* read_pages: every document is deserialized into a Page, the first failure
\* is the ParseError returned
read_pages(raw) ==
  IF \A id \in DOMAIN raw : page_deserializes(raw[id])
  THEN [err |-> NoErr, pages |-> raw]
  ELSE [err |-> parse_error, pages |-> raw]

\* parser::parse(settings) over the page documents `raw`, the pages
\* read_pages returns being visited in `order`
parse(cfg, raw, order) ==
  IF read_pages(raw).err # NoErr      \* `read_pages(settings)?`
  THEN [err |-> read_pages(raw).err, panic |-> NoPanic, pages |-> raw, entry |-> None]
  ELSE parse_result(cfg, raw, clean_pages(clean_start(raw), cfg, raw, order, 1))

(***************************************************************************)
(* types::item::Item.  An instance is [def |-> template name, used |-> n]; *)
(* `defs` is Game.item_defs.                                               *)
(***************************************************************************)
Item_new(name) == [def |-> name, used |-> 0]
\* uses_left that reports one use more than is left
uses_left_one_more(defs, item) ==
  IF IsSome(defs[item.def].max_uses)
  THEN Some((Unwrap(defs[item.def].max_uses) - item.used) + 1)
  ELSE None

uses_left(defs, item) ==
  IF IsSome(defs[item.def].max_uses)
  THEN Some(Unwrap(defs[item.def].max_uses) - item.used)
  ELSE None

\* returns the updated instance and the difference applied
mod_uses(defs, item, n) ==
  LET max  == IF IsSome(defs[item.def].max_uses)
              THEN Unwrap(defs[item.def].max_uses) ELSE I32_MAX
      used == clamp(item.used + n, 0, max)
  IN [item |-> [item EXCEPT !.used = used], diff |-> used - item.used]
\* use_once that hands out the effect whether or not a use was counted
use_once_always(defs, r) == [item |-> r.item, effect |-> Some(defs[r.item.def].effect)]

\* returns the updated instance and Some(effect), or None when nothing changed
use_once_result(defs, r) ==
  [item |-> r.item,
   effect |-> IF r.diff = 0 THEN None ELSE Some(defs[r.item.def].effect)]

use_once(defs, item) == use_once_result(defs, mod_uses(defs, item, 1))

(***************************************************************************)
(* app::core::Game.  `g` is the Game while one call runs:                  *)
(*   current_page, current_link_idx, history, prompt_queue, variables,     *)
(*   items: the fields; panic: the panic that stopped the call, if any;    *)
(*   proposals: the destinations SetDest proposed so far, in order;        *)
(*   trace: the actions executed so far, in order;                         *)
(*   seen: the holdings each of those actions started from;                *)
(*   pos: the position each of those actions started from;                 *)
(*   evals: the trigger conditions evaluated so far, in order, each with   *)
(*   the state it was evaluated in and the value it had.                   *)
(* `world` is what a call only reads: pages, item_defs, build.             *)
(***************************************************************************)
Panicked(g) == g.panic # NoPanic
\* where the player is: the fields eval_link_dest assigns
Position(g) == [current_page |-> g.current_page,
                current_link_idx |-> g.current_link_idx, history |-> g.history]
\* what the player has: the fields eval_link_dest does not assign
Store(g) == [variables |-> g.variables, items |-> g.items,
             prompt_queue |-> g.prompt_queue]
Abort(g, why) == [g EXCEPT !.panic = why]

RemoveKey(f, k) == [x \in DOMAIN f \ {k} |-> f[x]]
PutKey(f, k, v) == [x \in DOMAIN f \cup {k} |-> IF x = k THEN v ELSE f[x]]
\* pop_front that leaves the emptied stack under its name
pop_front_keeps_entry(its, name) == [its EXCEPT ![name] = Tail(@)]

\* VecDeque::pop_front on a stack, then `if stack.is_empty() { items.remove }`
pop_front_and_prune(its, name) ==
  IF Len(its[name]) <= 1 THEN RemoveKey(its, name)
  ELSE [its EXCEPT ![name] = Tail(@)]

\* returns [val, panic]
eval_operation(g, name, op, value) ==
  IF name \notin DOMAIN g.variables
  THEN [val |-> FALSE, panic |-> "index: no entry found for key"]
  ELSE LET var == g.variables[name]
           same == var.t = value.t
           nums == var.t = "Num" /\ value.t = "Num"
           unreachable == [val |-> FALSE, panic |-> "unreachable"]
           ret(b) == [val |-> b, panic |-> NoPanic]
       IN CASE op = "EQ"  -> IF same THEN ret(var.v = value.v) ELSE unreachable
            [] op = "NEQ" -> IF same THEN ret(var.v # value.v) ELSE unreachable
            [] op = "GT"  -> IF nums THEN ret(var.v > value.v) ELSE unreachable
            [] op = "GTE" -> IF nums THEN ret(var.v >= value.v) ELSE unreachable
            [] op = "LT"  -> IF nums THEN ret(var.v < value.v) ELSE unreachable
            [] op = "LTE" -> IF nums THEN ret(var.v <= value.v) ELSE unreachable

RECURSIVE eval_condition(_, _)
RECURSIVE all_children(_, _, _)
RECURSIVE any_children(_, _, _)
\* all() that goes on after a false child
all_children_lenient(g, children, i, r) ==
  IF r.panic # NoPanic THEN [r EXCEPT !.val = FALSE]
  ELSE all_children(g, children, i + 1)

\* child i evaluated to `r`: all() goes on only after a true child
all_children_next(g, children, i, r) ==
  IF r.panic # NoPanic \/ ~r.val THEN [r EXCEPT !.val = FALSE]
  ELSE all_children(g, children, i + 1)

\* Iterator::all: stops at the first false child
all_children(g, children, i) ==
  IF i > Len(children) THEN [val |-> TRUE, panic |-> NoPanic]
  ELSE all_children_next(g, children, i, eval_condition(g, children[i]))

\* child i evaluated to `r`: any() goes on only after a false child
any_children_next(g, children, i, r) ==
  IF r.panic # NoPanic \/ r.val THEN r
  ELSE any_children(g, children, i + 1)

\* Iterator::any: stops at the first true child
any_children(g, children, i) ==
  IF i > Len(children) THEN [val |-> FALSE, panic |-> NoPanic]
  ELSE any_children_next(g, children, i, eval_condition(g, children[i]))

\* returns [val, panic]
eval_condition(g, cond) ==
  CASE cond.c = "And" -> all_children(g, cond.children, 1)
    [] cond.c = "Or" -> any_children(g, cond.children, 1)
    [] cond.c = "Op" -> eval_operation(g, cond.name, cond.op, cond.value)
    [] cond.c = "HasItem" -> [val |-> cond.name \in DOMAIN g.items, panic |-> NoPanic]

RECURSIVE run_link_actions(_, _, _, _)
RECURSIVE run_actions_loop(_, _, _, _, _)

\* an arm that does not assign final_dest
keep(h) == [g |-> h, dest |-> None]
\* the push_back of a fresh instance, no wear moved from the previous one
acquire_push_fresh(defs, g, name, a) ==
  keep([g EXCEPT !.items[name] = Append(@, Item_new(name))])

\* `prev_item.mod_uses(-diff)` and the push_back, with `a` what
\* `item.mod_uses(prev_item.uses())` returned
acquire_push(defs, g, name, a) ==
  keep([g EXCEPT !.items[name] =
          Append([g.items[name] EXCEPT ![Len(g.items[name])] =
                    mod_uses(defs, g.items[name][Len(g.items[name])], 0 - a.diff).item],
                 a.item)])

\* the LinkAction::AcquireItem arm
acquire_item(world, g, name) ==
  IF name \notin DOMAIN world.item_defs      \* &self.item_defs[name]
  THEN keep(Abort(g, "index: no entry found for key"))
  ELSE IF name \in DOMAIN g.items
  THEN IF Len(g.items[name]) > 0
       THEN acquire_push(world.item_defs, g, name,
                         mod_uses(world.item_defs, Item_new(name),
                                  g.items[name][Len(g.items[name])].used))
       ELSE keep([g EXCEPT !.items[name] = <<Item_new(name)>>])
  ELSE keep([g EXCEPT !.items = PutKey(@, name, <<Item_new(name)>>)])
\* the UseItem arm that leaves the worn-out instance on its stack
use_item_effect_keeps(world, g, name, u, depth) ==
  IF IsSome(u.effect)
  THEN IF depth >= MaxDepth
       THEN keep(Abort([g EXCEPT !.items[name][1] = u.item], "stack overflow"))
       ELSE run_link_actions(world, [g EXCEPT !.items[name][1] = u.item],
                             <<Unwrap(u.effect)>>, depth + 1)
  ELSE keep(g)

\* the LinkAction::UseItem arm after `item.use_once()` returned `u`
use_item_effect(world, g, name, u, depth) ==
  IF IsSome(u.effect)
  THEN IF depth >= MaxDepth
       THEN keep(Abort([g EXCEPT !.items = IF uses_left(world.item_defs, u.item) = Some(0)
                                           THEN pop_front_and_prune(@, name)
                                           ELSE [@ EXCEPT ![name][1] = u.item]],
                       "stack overflow"))
       ELSE run_link_actions(world,
                             [g EXCEPT !.items = IF uses_left(world.item_defs, u.item) = Some(0)
                                                 THEN pop_front_and_prune(@, name)
                                                 ELSE [@ EXCEPT ![name][1] = u.item]],
                             <<Unwrap(u.effect)>>, depth + 1)
  ELSE keep(g)
\* the SetVar arm that inserts the variable when the store has none of the name
set_var_inserts(g, name, value) == keep([g EXCEPT !.variables = PutKey(@, name, value)])

\* the LinkAction::SetVar arm: `if let Some(var) = variables.get_mut(&name)`
set_var(g, name, value) ==
  IF name \in DOMAIN g.variables
  THEN keep([g EXCEPT !.variables[name] = value])
  ELSE keep(g)
\* the SetDest arm that moves to the page it proposes
set_dest_moves(g, dest) ==
  [g |-> [g EXCEPT !.proposals = Append(@, dest),
                   !.current_page = IF dest.k = "Page" THEN dest.id ELSE @],
   dest |-> Some(dest)]

\* the LinkAction::SetDest arm: `final_dest = Some(dest.clone())`
set_dest(g, dest) ==
  [g |-> [g EXCEPT !.proposals = Append(@, dest)], dest |-> Some(dest)]
\* the DropItem arm that removes the newest instance, from the back
drop_item_back(g, name) ==
  IF name \in DOMAIN g.items
  THEN keep([g EXCEPT !.items = IF Len(g.items[name]) <= 1 THEN RemoveKey(g.items, name)
                                 ELSE [g.items EXCEPT ![name] =
                                         SubSeq(g.items[name], 1, Len(g.items[name]) - 1)]])
  ELSE keep(g)

\* the LinkAction::DropItem arm
drop_item(g, name) ==
  IF name \in DOMAIN g.items
  THEN keep([g EXCEPT !.items = pop_front_and_prune(@, name)])
  ELSE keep(g)

\* one arm of the `match action`, `g` being the Game with the action recorded
run_arm(world, g, action, depth) ==
  CASE action.a = "SetVar" -> set_var(g, action.name, action.value)
       [] action.a = "ModNum" ->
            IF action.name \in DOMAIN g.variables /\ g.variables[action.name].t = "Num"
            THEN IF i32_overflows(g.variables[action.name].v, action.value)
                    /\ world.build = "debug"
                 THEN keep(Abort(g, "attempt to add with overflow"))
                 ELSE keep([g EXCEPT !.variables[action.name] =
                              Num(convert_bounded(i32_wrapping_add(@.v, action.value)))])
            ELSE keep(g)
       [] action.a = "ToggleBool" ->
            IF action.name \in DOMAIN g.variables /\ g.variables[action.name].t = "Bool"
            THEN keep([g EXCEPT !.variables[action.name] = Bool(~@.v)])
            ELSE keep(g)
       [] action.a = "SetDest" -> set_dest(g, action.dest)
       [] action.a = "Prompt" ->
            keep([g EXCEPT !.prompt_queue =
                    Append(@, [text |-> action.text, variable |-> action.variable])])
       [] action.a = "AcquireItem" -> acquire_item(world, g, action.name)
       [] action.a = "DropItem" -> drop_item(g, action.name)
       [] action.a = "UseItem" ->
            IF action.name \in DOMAIN g.items /\ Len(g.items[action.name]) > 0
            THEN use_item_effect(world, g, action.name,
                                 use_once(world.item_defs, g.items[action.name][1]), depth)
            ELSE keep(g)

\* one round of the `for action in actions` loop; returns [g, dest] with dest
\* the Option the arm leaves in final_dest (None: final_dest is not assigned)
run_action(world, g0, action, depth) ==
  run_arm(world, [g0 EXCEPT !.trace = Append(@, action),
                            !.seen = Append(@, g0.items),
                            !.pos = Append(@, Position(g0))], action, depth)
\* the loop that keeps the first destination proposed instead of the last
run_actions_first_wins(world, final_dest, actions, depth, r) ==
  run_actions_loop(world, r.g, IF IsSome(final_dest) THEN final_dest ELSE r.dest,
                   Tail(actions), depth)

\* the rest of the loop once one action ran into `r`
run_actions_next(world, final_dest, actions, depth, r) ==
  run_actions_loop(world, r.g, IF IsSome(r.dest) THEN r.dest ELSE final_dest,
                   Tail(actions), depth)

\* the `for action in actions` loop with its `final_dest`
run_actions_loop(world, g, final_dest, actions, depth) ==
  IF actions = <<>> \/ Panicked(g) THEN [g |-> g, dest |-> final_dest]
  ELSE run_actions_next(world, final_dest, actions, depth,
                        run_action(world, g, Head(actions), depth))

\* returns [g, dest]: the Game after the actions and the Option<LinkDest>
run_link_actions(world, g, actions, depth) ==
  run_actions_loop(world, g, None, actions, depth)

RECURSIVE triggers_loop(_, _, _, _)
\* the `for trigger in triggers` loop with its `final_dest`
\* the rest of the loop once the actions of the first trigger ran into `r`
triggers_next(world, final_dest, triggers, r) ==
  triggers_loop(world, r.g, IF IsSome(r.dest) THEN r.dest ELSE final_dest,
                Tail(triggers))
\* the trigger round that runs the actions whatever the condition evaluated to
trigger_fire_always(world, g, final_dest, triggers, c) ==
  IF c.panic # NoPanic THEN [g |-> Abort(g, c.panic), dest |-> final_dest]
  ELSE triggers_next(world, final_dest, triggers,
                     run_link_actions(world, g, Head(triggers).actions, 0))

\* `if self.eval_condition(&trigger.condition)`, the condition having
\* evaluated to `c`
trigger_fire(world, g, final_dest, triggers, c) ==
  IF c.panic # NoPanic THEN [g |-> Abort(g, c.panic), dest |-> final_dest]
  ELSE IF c.val
  THEN triggers_next(world, final_dest, triggers,
                     run_link_actions(world, g, Head(triggers).actions, 0))
  ELSE triggers_loop(world, g, final_dest, Tail(triggers))

\* the Game with the evaluation of `cond` to `c` recorded
evaluated(g, cond, c) ==
  [g EXCEPT !.evals = Append(@, [condition |-> cond, val |-> c.val, panic |-> c.panic,
                                 variables |-> g.variables, items |-> g.items,
                                 pos |-> Position(g), at |-> Len(g.trace)])]

\* one round of the `for trigger in triggers` loop, the condition of the
\* first trigger having evaluated to `c`
trigger_round(world, g, final_dest, triggers, c) ==
  trigger_fire(world, evaluated(g, Head(triggers).condition, c), final_dest, triggers, c)

triggers_loop(world, g, final_dest, triggers) ==
  IF triggers = <<>> \/ Panicked(g) THEN [g |-> g, dest |-> final_dest]
  ELSE trigger_round(world, g, final_dest, triggers,
                     eval_condition(g, Head(triggers).condition))

\* eval_link_triggers that runs the triggers and forgets what they proposed
eval_link_triggers_forgets(world, g, triggers) ==
  [g |-> triggers_loop(world, g, None, triggers).g, dest |-> None]

eval_link_triggers(world, g, triggers) == triggers_loop(world, g, None, triggers)

(***************************************************************************)
(* Ownership: a Page lives as long as a strong reference (Rc) reaches it.  *)
(* After parse returns, the strong references are Game.starting_page,      *)
(* Game.current_page and the resolved destinations held by live pages.     *)
(***************************************************************************)
ActionEdges(actions) ==
  {actions[i].dest.id : i \in {j \in DOMAIN actions :
      actions[j].a = "SetDest" /\ actions[j].dest.k = "Page"
      /\ actions[j].dest.side = "Right"}}

LinkEdges(link) ==
  (IF link.dest.k = "Page" /\ link.dest.side = "Right" THEN {link.dest.id} ELSE {})
  \cup ActionEdges(link.actions)
  \cup UNION {ActionEdges(link.triggers[i].actions) : i \in DOMAIN link.triggers}

PageEdges(ps, id) == UNION {LinkEdges(ps[id].links[i]) : i \in DOMAIN ps[id].links}

RECURSIVE Closure(_, _)
Closure(ps, S) ==
  LET T == S \cup UNION {PageEdges(ps, id) : id \in S}
  IN IF T = S THEN S ELSE Closure(ps, T)
\* the pages kept alive when the Game holds the current page only
Alive_current_only(world, g) == Closure(world.pages, {g.current_page})

\* the pages some Rc keeps alive
Alive(world, g) == Closure(world.pages, {world.starting_page, g.current_page})

\* the history entry that forgets the arrived-via index
HistoryItem_new_no_idx(page, link_idx) == [page |-> page, link_idx |-> None]

HistoryItem_new(page, link_idx) == [page |-> page, link_idx |-> link_idx]

\* the Page arm without the test that the page differs from the current one
dest_page_always_moves(world, g, link_dest, link_idx) ==
  IF link_dest.side # "Right"
  THEN [g |-> Abort(g, "Left variant should only exist during parsing"), ret |-> None]
  ELSE [g |-> [g EXCEPT
                 !.history = Append(@, HistoryItem_new(g.current_page,
                                                        g.current_link_idx)),
                 !.current_page = link_dest.id,
                 !.current_link_idx = Some(link_idx)],
        ret |-> None]
\* the Page arm that stores the index of the link being followed in the entry
dest_page_pushes_followed(world, g, link_dest, link_idx) ==
  IF link_dest.side # "Right"
  THEN [g |-> Abort(g, "Left variant should only exist during parsing"), ret |-> None]
  ELSE IF link_dest.id # g.current_page
  THEN [g |-> [g EXCEPT
                 !.history = Append(@, HistoryItem_new(g.current_page, Some(link_idx))),
                 !.current_page = link_dest.id,
                 !.current_link_idx = Some(link_idx)],
        ret |-> None]
  ELSE [g |-> g, ret |-> None]

\* the LinkDest::Page arm; returns [g, ret]
dest_page(world, g, link_dest, link_idx) ==
  IF link_dest.side # "Right"     \* get_page: expect_right
  THEN [g |-> Abort(g, "Left variant should only exist during parsing"), ret |-> None]
  ELSE IF link_dest.id # g.current_page
  THEN [g |-> [g EXCEPT
                 !.history = Append(@, HistoryItem_new(g.current_page,
                                                        g.current_link_idx)),
                 !.current_page = link_dest.id,
                 !.current_link_idx = Some(link_idx)],
        ret |-> None]
  ELSE [g |-> g, ret |-> None]

\* the PrevPage arm that unwraps the popped entry instead of testing for it
dest_prev_unwraps(world, g) ==
  IF g.history = <<>> THEN [g |-> Abort(g, "unwrap on None (history)"), ret |-> None]
  ELSE LET item == g.history[Len(g.history)]
           g1   == [g EXCEPT !.history = SubSeq(@, 1, Len(@) - 1)]
       IN IF item.page \notin Alive(world, g)
          THEN [g |-> Abort(g1, "unwrap on None (upgrade)"), ret |-> None]
          ELSE [g |-> [g1 EXCEPT !.current_page = item.page,
                                 !.current_link_idx = item.link_idx],
                ret |-> None]
\* the PrevPage arm that restores the page and leaves the arrived-via index
dest_prev_keeps_idx(world, g) ==
  IF g.history = <<>> THEN [g |-> g, ret |-> None]
  ELSE IF g.history[Len(g.history)].page \notin Alive(world, g)
  THEN [g |-> Abort([g EXCEPT !.history = SubSeq(@, 1, Len(@) - 1)],
                    "unwrap on None (upgrade)"), ret |-> None]
  ELSE [g |-> [g EXCEPT !.history = SubSeq(@, 1, Len(@) - 1),
                        !.current_page = g.history[Len(g.history)].page],
        ret |-> None]
\* the PrevPage arm that reads the top entry and leaves it on the history
dest_prev_peeks(world, g) ==
  IF g.history = <<>> THEN [g |-> g, ret |-> None]
  ELSE IF g.history[Len(g.history)].page \notin Alive(world, g)
  THEN [g |-> Abort(g, "unwrap on None (upgrade)"), ret |-> None]
  ELSE [g |-> [g EXCEPT !.current_page = g.history[Len(g.history)].page,
                        !.current_link_idx = g.history[Len(g.history)].link_idx],
        ret |-> None]
\* the PrevPage arm that also empties the holdings and the prompt queue
dest_prev_resets_store(world, g) ==
  IF g.history = <<>> THEN [g |-> g, ret |-> None]
  ELSE IF g.history[Len(g.history)].page \notin Alive(world, g)
  THEN [g |-> Abort([g EXCEPT !.history = SubSeq(@, 1, Len(@) - 1)],
                    "unwrap on None (upgrade)"), ret |-> None]
  ELSE [g |-> [g EXCEPT !.history = SubSeq(@, 1, Len(@) - 1),
                        !.current_page = g.history[Len(g.history)].page,
                        !.current_link_idx = g.history[Len(g.history)].link_idx,
                        !.items = <<>>,
                        !.prompt_queue = <<>>],
        ret |-> None]

\* the LinkDest::PrevPage arm; returns [g, ret]
dest_prev(world, g) ==
  IF g.history = <<>> THEN [g |-> g, ret |-> None]
  ELSE LET item == g.history[Len(g.history)]
           g1   == [g EXCEPT !.history = SubSeq(@, 1, Len(@) - 1)]
       IN IF item.page \notin Alive(world, g)   \* Weak::upgrade is None
          THEN [g |-> Abort(g1, "unwrap on None (upgrade)"), ret |-> None]
          ELSE [g |-> [g1 EXCEPT !.current_page = item.page,
                                 !.current_link_idx = item.link_idx],
                ret |-> None]

\* the EndGame arm that leaves the arrived-via index in place
dest_end_keeps_idx(g, msg) == [g |-> g, ret |-> Some(msg)]

\* the LinkDest::EndGame arm; returns [g, ret]
dest_end(g, msg) ==
  [g |-> [g EXCEPT !.current_link_idx = None], ret |-> Some(msg)]

\* returns [g, ret] with ret the Option<String> returned
eval_link_dest(world, g, link_dest, link_idx) ==
  CASE link_dest.k = "Page" -> dest_page(world, g, link_dest, link_idx)
    [] link_dest.k = "CurrentPage" -> [g |-> g, ret |-> None]
    [] link_dest.k = "PrevPage" -> dest_prev(world, g)
    [] link_dest.k = "EndGame" -> dest_end(g, link_dest.msg)

\* returns [g, ret, static, applied, from, store]: the Game after the call,
\* the value returned, the link's own destination, the destination handed to
\* eval_link_dest (None when the call panicked before) and the position and
\* the store of the Game `h` it was handed to
follow_result(to_link, applied, h, e) ==
  [g |-> e.g, ret |-> e.ret, static |-> Some(to_link.dest), applied |-> applied,
   from |-> Position(h), store |-> Store(h)]

\* `self.eval_link_dest(link_dest, link_idx)`, the triggers having returned `t`
\* and `link_dest` being what the link and its actions settled on
follow_dest(world, to_link, link_idx, link_dest, t) ==
  IF Panicked(t.g)
  THEN follow_result(to_link, None, t.g, [g |-> t.g, ret |-> None])
  ELSE follow_result(to_link,
                     Some(IF IsSome(t.dest) THEN Unwrap(t.dest) ELSE link_dest), t.g,
                     eval_link_dest(world, t.g,
                                    IF IsSome(t.dest) THEN Unwrap(t.dest) ELSE link_dest,
                                    link_idx))

\* `self.eval_link_triggers(&to_link.triggers)`, the actions having returned `a`
follow_triggers(world, to_link, link_idx, a) ==
  IF Panicked(a.g)
  THEN follow_dest(world, to_link, link_idx, to_link.dest, [g |-> a.g, dest |-> None])
  ELSE follow_dest(world, to_link, link_idx,
                   IF IsSome(a.dest) THEN Unwrap(a.dest) ELSE to_link.dest,
                   eval_link_triggers(world, a.g, to_link.triggers))

\* `self.run_link_actions(&to_link.actions)` on the link found
follow_actions(world, g, to_link, link_idx) ==
  follow_triggers(world, to_link, link_idx,
                  run_link_actions(world, g, to_link.actions, 0))

follow_link(world, g, link_idx) ==
  IF link_idx + 1 \notin DOMAIN world.pages[g.current_page].links
  THEN [g |-> Abort(g, "unwrap on None (link)"), ret |-> None,   \* .get(..).unwrap()
        static |-> None, applied |-> None, from |-> Position(g), store |-> Store(g)]
  ELSE follow_actions(world, g, world.pages[g.current_page].links[link_idx + 1],
                      link_idx)

\* follow_link that stores the destination it applied in the link followed
graph_after_stores_dest(world, g, link_idx, r) ==
  [pages |-> IF IsSome(r.applied)
             THEN [world.pages EXCEPT ![g.current_page].links[link_idx + 1].dest =
                                         Unwrap(r.applied)]
             ELSE world.pages,
   item_defs |-> world.item_defs]

\* the story graph and the item templates after follow_link returned `r`:
\* the call reads the links of the current page through `borrow()` and runs
\* clones of the destination, actions and triggers (`link_dest` is a local),
\* and an Item reads its template through an Rc: neither is written
graph_after(world, g, link_idx, r) ==
  [pages |-> world.pages, item_defs |-> world.item_defs]

\* pop_prompt that takes the newest prompt, from the back of the queue
pop_prompt_back(g) ==
  IF g.prompt_queue = <<>> THEN [g |-> g, ret |-> None]
  ELSE [g |-> [g EXCEPT !.prompt_queue = SubSeq(@, 1, Len(@) - 1)],
        ret |-> Some(g.prompt_queue[Len(g.prompt_queue)])]

\* returns the Game after the call and the Option<Prompt> returned
pop_prompt(g) ==
  IF g.prompt_queue = <<>> THEN [g |-> g, ret |-> None]
  ELSE [g |-> [g EXCEPT !.prompt_queue = Tail(@)], ret |-> Some(Head(g.prompt_queue))]

\* `input.parse::<Variable>()`: the untagged enum is deserialized from a
\* string deserializer, which offers a str: Num and Bool refuse it, Str takes it
Variable_from_str(input) == Str(input)

\* ui::on_prompt_submit; returns the Game and whether the input was taken
on_prompt_submit(g, input, var_name) ==
  LET value == Variable_from_str(input)
  IN IF input = "" THEN [g |-> g, ok |-> FALSE]
     ELSE IF var_name \notin DOMAIN g.variables
     THEN [g |-> Abort(g, "unwrap on None (variable)"), ok |-> FALSE]
     ELSE IF type_(g.variables[var_name]) # type_(value)
     THEN [g |-> g, ok |-> FALSE]
     ELSE [g |-> [g EXCEPT !.variables[var_name] = value], ok |-> TRUE]

(***************************************************************************)
(* Stories: the settings and page documents a load may be given            *)
(***************************************************************************)
Story(declared, vs, its, entry, ps) ==
  [cfg  |-> [pages |-> declared, variables |-> vs, items |-> its,
             entrypoint |-> entry],
   docs |-> ps]

NoItems == [n \in {} |-> ItemDef(None, CurrentPage)]
Vars3 == [n \in {"hp", "lit", "nm"} |->
            CASE n = "hp" -> Num(1) [] n = "lit" -> Bool(FALSE) [] n = "nm" -> Str("ann")]

RawDests == {PageLeft("p1"), PageLeft("p2"), PageLeft("p3"),
             CurrentPage, PrevPage, EndGame("the end")}

\* Navigation: link 0 of p1 has a static destination D, an action proposing A
\* and a trigger (condition c) proposing B; link 2 has two triggers
NavStory(D, A, B, c) ==
  Story({"p1", "p2", "p3"}, Vars3, NoItems, Some("p1"),
    [id \in {"p1", "p2", "p3"} |->
      CASE id = "p1" ->
             Page("p1", << Link(D, <<SetDest(A)>>, <<LinkTrigger(c, <<SetDest(B)>>)>>),
                           Link(PageLeft("p2"), <<>>, <<>>),
                           Link(D, <<>>, <<LinkTrigger(c, <<SetDest(B)>>),
                                           LinkTrigger(And(<<>>), <<SetDest(A)>>)>>) >>)
        [] id = "p2" ->
             Page("p2", << Link(PrevPage, <<>>, <<>>),
                           Link(PageLeft("p3"), <<>>, <<>>),
                           Link(EndGame("bye"), <<>>, <<>>) >>)
        [] id = "p3" ->
             Page("p3", << Link(PageLeft("p3"), <<>>, <<>>),
                           Link(CurrentPage, <<ToggleBool("lit")>>, <<>>),
                           Link(PrevPage, <<>>, <<>>),
                           Link(PageLeft("p1"), <<>>, <<>>) >>)])

NavConds == {Op("hp", "EQ", Num(1)), Op("hp", "GT", Num(1))}

NavStories ==
  {NavStory(D, A, B, c) : D \in RawDests, A \in {PageLeft("p2"), PrevPage, EndGame("a")},
                          B \in {PageLeft("p3"), CurrentPage, EndGame("b")},
                          c \in NavConds}

\* Numbers: hp starts at v0 and link 0 adds d
NumStory(v0, d) ==
  Story({"p1"}, [Vars3 EXCEPT !["hp"] = Num(v0)], NoItems, Some("p1"),
    [id \in {"p1"} |->
       Page("p1", << Link(CurrentPage, <<ModNum("hp", d)>>,
                          <<LinkTrigger(Op("hp", "LT", Num(0)),
                                        <<SetDest(EndGame("negative"))>>)>>),
                     Link(CurrentPage, <<ModNum("hp", 1)>>, <<>>),
                     Link(CurrentPage, <<ModNum("hp", 0 - 1)>>, <<>>) >>)])

NumStories ==
  {NumStory(v0, d) : v0 \in {0, I32_MAX, I32_MAX - 1, I32_MIN, I32_MIN + 1},
                     d \in {I32_MAX, I32_MIN, 2, 0 - 2}}

Literals == {Num(1), Bool(TRUE), Str("ann")}
VarNames == {"hp", "lit", "nm"}
ComparisonOps == {"EQ", "NEQ", "GT", "GTE", "LT", "LTE"}

\* Conditions: link 0 has a trigger comparing a variable with a literal
CondStory(var, op, lit) ==
  Story({"p1"}, Vars3, NoItems, Some("p1"),
    [id \in {"p1"} |->
       Page("p1", << Link(CurrentPage, <<>>,
                          <<LinkTrigger(Op(var, op, lit), <<SetDest(EndGame("yes"))>>)>>),
                     Link(CurrentPage, <<Prompt("name?", Some("nm")),
                                         Prompt("hp?", Some("hp")),
                                         Prompt("hello", None)>>, <<>>),
                     Link(CurrentPage, <<ToggleBool("lit"), ModNum("hp", 1),
                                         SetVar("nm", Str("zed"))>>, <<>>) >>)])

CondStories ==
  {CondStory(var, op, lit) : var \in VarNames, op \in ComparisonOps, lit \in Literals}

\* Items: torch has max uses m and effect eff; key is unlimited and uses a torch
ItemDefs(m, eff) ==
  [n \in {"torch", "key"} |->
     IF n = "torch" THEN ItemDef(m, eff) ELSE ItemDef(None, UseItem("torch"))]

ItemStory(m, eff) ==
  Story({"p1", "p2"}, Vars3, ItemDefs(m, eff), Some("p1"),
    [id \in {"p1", "p2"} |->
      CASE id = "p1" ->
             Page("p1", << Link(CurrentPage, <<AcquireItem("torch")>>, <<>>),
                           Link(CurrentPage, <<UseItem("torch")>>,
                                <<LinkTrigger(HasItem("torch"), <<ToggleBool("lit")>>)>>),
                           Link(PageLeft("p2"), <<AcquireItem("torch"), UseItem("torch"),
                                                  AcquireItem("torch")>>, <<>>),
                           Link(CurrentPage, <<DropItem("torch")>>, <<>>) >>)
        [] id = "p2" ->
             Page("p2", << Link(PrevPage, <<AcquireItem("key"), UseItem("key")>>, <<>>),
                           Link(CurrentPage, <<UseItem("torch"), SetDest(PageLeft("p1"))>>,
                                <<LinkTrigger(Op("hp", "GTE", Num(1)),
                                              <<Prompt("hp?", Some("hp"))>>)>>) >>)])

Effects == {ToggleBool("lit"), ModNum("hp", 1), SetVar("hp", Num(9)),
            SetVar("hp", Str("full")), SetVar("ghost", Num(1)), ModNum("nm", 1),
            SetDest(PageLeft("p2")), SetDest(EndGame("boom")), SetDest(PrevPage),
            Prompt("who?", Some("ghost")), Prompt("name?", Some("nm")),
            AcquireItem("ghost"), AcquireItem("torch"), DropItem("torch"),
            UseItem("torch"), UseItem("key")}

\* the effects that use an item: an item whose effect is one of them nests
\* an execution for each use it has left
UseEffects == {UseItem("torch"), UseItem("key")}

ItemStories ==
  {ItemStory(m, eff) : m \in {None, Some(1), Some(2), Some(3)}, eff \in Effects \ UseEffects}
  \cup {ItemStory(m, eff) : m \in {None, Some(1)}, eff \in UseEffects}

\* Actions: one action, run once as a link action and once as a trigger action
Actions ==
  {SetVar(n, val) : n \in VarNames \cup {"ghost"}, val \in {Num(5), Bool(TRUE), Str("zed")}}
  \cup {ModNum(n, 1) : n \in VarNames \cup {"ghost"}}
  \cup {ToggleBool(n) : n \in VarNames \cup {"ghost"}}
  \cup {Prompt("?", Some(n)) : n \in {"nm", "ghost"}}
  \cup {AcquireItem("ghost"), DropItem("ghost"), UseItem("ghost"), AcquireItem("torch")}

ActStory(act) ==
  Story({"p1"}, Vars3, ItemDefs(Some(2), ToggleBool("lit")), Some("p1"),
    [id \in {"p1"} |->
       Page("p1", << Link(CurrentPage, <<act>>, <<>>),
                     Link(CurrentPage, <<>>, <<LinkTrigger(And(<<>>), <<act>>)>>) >>)])

ActStories == {ActStory(act) : act \in Actions}

\* Loading: each of p1 and p2 carries a link that may be defective, and an
\* undeclared page document p9 may be present
DefectLinks ==
  {Link(PageLeft("p2"), <<>>, <<>>),
   Link(PageLeft("p7"), <<>>, <<>>),
   Link(CurrentPage, <<SetDest(PageLeft("p7"))>>, <<>>),
   Link(CurrentPage, <<>>, <<LinkTrigger(And(<<>>), <<SetDest(PageLeft("p7"))>>)>>),
   Link(CurrentPage, <<SetVar("ghost", Num(1))>>, <<>>),
   Link(CurrentPage, <<>>, <<LinkTrigger(HasItem("ghost"), <<>>)>>),
   Link(PageLeft("p1"), <<ModNum("nm", 1)>>, <<>>)}

LoadStory(l1, l2, extra, entry) ==
  Story({"p1", "p2", "p3"}, Vars3, ItemDefs(Some(2), ToggleBool("lit")), entry,
    [id \in {"p1", "p2"} \cup extra |->
      CASE id = "p1" -> Page("p1", <<Link(PageLeft("p1"), <<>>, <<>>), l1>>)
        [] id = "p2" -> Page("p2", <<l2, Link(PrevPage, <<>>, <<>>)>>)
        [] OTHER -> Page(id, <<Link(PageLeft("p1"), <<>>, <<>>)>>)])

LoadStories ==
  {LoadStory(l1, l2, extra, Some("p1")) :
      l1 \in DefectLinks, l2 \in DefectLinks, extra \in {{}, {"p9"}, {"p3"}}}
  \cup {LoadStory(Link(PageLeft("p2"), <<>>, <<>>), Link(PageLeft("p1"), <<>>, <<>>),
                  {}, entry) : entry \in {None, Some("p3"), Some("p2")}}

\* Settings whose torch has an out-of-range or in-range maximum
RangeStories ==
  {ItemStory(Some(m), ToggleBool("lit")) : m \in {0 - 1, 0, ITEM_USES_MAX, ITEM_USES_MAX + 1}}

\* Wear: link 0 acquires a torch (max uses m, effect eff) and uses it twice,
\* link 1 acquires another, link 2 uses the front one, link 3 drops the front
\* one, link 4 uses the front one and then proposes the end of the game
WearStory(m, eff) ==
  Story({"p1"}, Vars3, ItemDefs(m, eff), Some("p1"),
    [id \in {"p1"} |->
       Page("p1", << Link(CurrentPage, <<AcquireItem("torch"), UseItem("torch"),
                                         UseItem("torch")>>, <<>>),
                     Link(CurrentPage, <<AcquireItem("torch")>>, <<>>),
                     Link(CurrentPage, <<UseItem("torch")>>, <<>>),
                     Link(CurrentPage, <<DropItem("torch")>>, <<>>),
                     Link(CurrentPage, <<UseItem("torch"), SetDest(EndGame("late"))>>,
                          <<>>) >>)])

WearEffects == {ToggleBool("lit"), SetDest(EndGame("boom")),
                Prompt("who?", Some("nm")), AcquireItem("torch")}

WearStories == {WearStory(m, eff) : m \in {None, Some(1), Some(2), Some(3)},
                                    eff \in WearEffects}

\* Nesting: link 0 has one trigger, guarded by c, that proposes the end of
\* the game; the other links change what the leaves of c read
NestStory(c) ==
  Story({"p1"}, Vars3, ItemDefs(Some(2), ToggleBool("lit")), Some("p1"),
    [id \in {"p1"} |->
       Page("p1", << Link(CurrentPage, <<>>,
                          <<LinkTrigger(c, <<SetDest(EndGame("yes"))>>)>>),
                     Link(CurrentPage, <<ToggleBool("lit")>>, <<>>),
                     Link(CurrentPage, <<AcquireItem("torch")>>, <<>>),
                     Link(CurrentPage, <<ModNum("hp", 1)>>, <<>>) >>)])

Leaves == {Op("hp", "EQ", Num(1)), Op("lit", "EQ", Bool(TRUE)), HasItem("torch")}

\* conjunctions and disjunctions of no, one and two leaves
Flat ==
  {And(<<>>), Or(<<>>)}
  \cup {And(<<a>>) : a \in Leaves} \cup {Or(<<a>>) : a \in Leaves}
  \cup {And(<<a, b>>) : a \in Leaves, b \in Leaves}
  \cup {Or(<<a, b>>) : a \in Leaves, b \in Leaves}

\* a conjunction or disjunction of one of those and a leaf, in both orders
Nested ==
  {And(<<x, y>>) : x \in Flat, y \in Leaves} \cup {Or(<<x, y>>) : x \in Flat, y \in Leaves}
  \cup {And(<<y, x>>) : x \in Flat, y \in Leaves} \cup {Or(<<y, x>>) : x \in Flat, y \in Leaves}

NestStories == {NestStory(c) : c \in Flat \cup Nested}

\* Negation: the trigger of link 0 is guarded by the negation of c
NotStories == {NestStory(Not(c)) : c \in Leaves \cup {And(<<>>)}}
\* Triggers: link 0 runs a0 and has two triggers, the first guarded by c1 and
\* running a1, the second guarded by c2 and proposing the end of the game;
\* the other links change what the conditions read
TrigStory(a0, c1, a1, c2) ==
  Story({"p1"}, Vars3, ItemDefs(Some(2), ToggleBool("lit")), Some("p1"),
    [id \in {"p1"} |->
       Page("p1", << Link(CurrentPage, <<a0>>,
                          <<LinkTrigger(c1, <<a1>>),
                            LinkTrigger(c2, <<SetDest(EndGame("two"))>>)>>),
                     Link(CurrentPage, <<ModNum("hp", 1)>>, <<>>),
                     Link(CurrentPage, <<AcquireItem("torch")>>, <<>>) >>)])

TrigStories ==
  {TrigStory(a0, c1, a1, c2) :
      a0 \in {ModNum("hp", 1), AcquireItem("torch")},
      c1 \in {Op("hp", "EQ", Num(2)), Op("hp", "EQ", Num(1)), HasItem("torch")},
      a1 \in {ToggleBool("lit"), DropItem("torch"), ModNum("hp", 1)},
      c2 \in {Op("lit", "EQ", Bool(TRUE)), HasItem("torch"), Op("hp", "GT", Num(2))}}
\* Execution order: link 0 proposes a destination and then uses a torch
\* (max uses m, effect eff), link 1 uses the torch first and proposes
\* afterwards, link 2 writes hp four times, link 3 proposes twice
ExecStory(m, eff) ==
  Story({"p1", "p2"}, Vars3, ItemDefs(m, eff), Some("p1"),
    [id \in {"p1", "p2"} |->
      CASE id = "p1" ->
             Page("p1", << Link(CurrentPage, <<AcquireItem("torch"),
                                               SetDest(EndGame("early")),
                                               UseItem("torch")>>, <<>>),
                           Link(CurrentPage, <<AcquireItem("torch"), UseItem("torch"),
                                               SetDest(EndGame("late"))>>, <<>>),
                           Link(CurrentPage, <<ModNum("hp", 1), ModNum("hp", 1),
                                               SetVar("hp", Num(5)), ModNum("hp", 1),
                                               ToggleBool("lit")>>, <<>>),
                           Link(CurrentPage, <<SetDest(EndGame("first")),
                                               SetDest(PageLeft("p2")),
                                               DropItem("torch")>>, <<>>) >>)
        [] id = "p2" -> Page("p2", << Link(PrevPage, <<>>, <<>>) >>)])

ExecStories ==
  {ExecStory(m, eff) : m \in {None, Some(1), Some(2)},
                       eff \in {SetDest(EndGame("boom")), ToggleBool("lit")}}
\* Absent variables: the torch's effect writes a variable that is not declared
GhostEffects == {SetVar("ghost", Num(1)), ModNum("ghost", 1), ToggleBool("ghost")}

GhostStories == {WearStory(Some(2), eff) : eff \in GhostEffects}

Stories ==
  NavStories \cup NumStories \cup CondStories \cup ItemStories \cup ActStories
  \cup LoadStories \cup RangeStories \cup WearStories \cup NestStories
  \cup NotStories \cup TrigStories \cup ExecStories \cup GhostStories

(***************************************************************************)
(* The state machine                                                       *)
(***************************************************************************)
Perms(S) == {f \in [1..Cardinality(S) -> S] : \A i, j \in DOMAIN f : f[i] = f[j] => i = j}

NoCall == [op |-> "none", idx |-> 0, pre |-> <<>>, static |-> None, applied |-> None,
           proposals |-> <<>>, trace |-> <<>>, seen |-> <<>>, pos |-> <<>>,
           evals |-> <<>>, from |-> None, ret |-> None,
           input |-> None, variable |-> None, prior |-> None, store |-> None]

World == [pages |-> pages, item_defs |-> item_defs, build |-> build,
          starting_page |-> starting_page]

\* the Game as the record the operators work on
Game == [current_page |-> current_page, current_link_idx |-> current_link_idx,
         history |-> history, prompt_queue |-> prompt_queue,
         variables |-> variables, items |-> items,
         panic |-> panic, proposals |-> <<>>, trace |-> <<>>, seen |-> <<>>,
         pos |-> <<>>, evals |-> <<>>]

\* the fields of the Game
Fields(g) == [current_page |-> g.current_page, current_link_idx |-> g.current_link_idx,
              history |-> g.history, prompt_queue |-> g.prompt_queue,
              variables |-> g.variables, items |-> g.items]

SetGame(g) ==
  /\ current_page' = g.current_page
  /\ current_link_idx' = g.current_link_idx
  /\ history' = g.history
  /\ prompt_queue' = g.prompt_queue
  /\ variables' = g.variables
  /\ items' = g.items
  /\ panic' = g.panic

Init ==
  /\ \E s \in Stories : settings = s.cfg /\ docs = s.docs
  /\ build \in {"debug", "release"}
  /\ phase = "start"
  /\ load_result = NoErr
  /\ pages = <<>>
  /\ starting_page = ""
  /\ current_page = ""
  /\ current_link_idx = None
  /\ history = <<>>
  /\ prompt_queue = <<>>
  /\ variables = <<>>
  /\ item_defs = <<>>
  /\ items = <<>>
  /\ panic = NoPanic
  /\ dialog = None
  /\ calls = 0
  /\ last = NoCall
  /\ enqueued = <<>>
  /\ delivered = <<>>

\* what load_storygame does with `r`, the outcome of parser::parse: an Err is
\* reported, an Ok builds the Game (Game::new)
LoadParsed(r) ==
  IF r.err # NoErr \/ r.panic # NoPanic
  THEN /\ phase' = "failed"
       /\ load_result' = r.err
       /\ panic' = r.panic
       /\ UNCHANGED <<pages, starting_page, current_page, variables, item_defs>>
  ELSE /\ phase' = "playing"
       /\ load_result' = NoErr
       /\ pages' = r.pages
       /\ starting_page' = Unwrap(r.entry)
       /\ current_page' = Unwrap(r.entry)
       /\ variables' = settings.variables
       /\ item_defs' = settings.items
       /\ panic' = NoPanic

\* menu::load_storygame: Settings::read, parser::parse, Game::new
Load ==
  /\ phase = "start"
  /\ LET d == deserialize_item_defs(settings.items)
     IN IF d.err # NoErr
        THEN /\ phase' = "failed"
             /\ load_result' = d.err
             /\ UNCHANGED <<pages, starting_page, current_page, variables, item_defs,
                            panic>>
        ELSE \E order \in Perms(DOMAIN docs) :
               LoadParsed(parse(settings, docs, order))
  /\ UNCHANGED <<build, settings, docs, current_link_idx, history, prompt_queue, items,
                 dialog, calls, last, enqueued, delivered>>

\* the prompts the Prompt actions of a trace carry, in the order of the trace
PromptsOf(trace) ==
  [i \in 1..Len(SelectSeq(trace, LAMBDA a : a.a = "Prompt")) |->
     [text |-> SelectSeq(trace, LAMBDA a : a.a = "Prompt")[i].text,
      variable |-> SelectSeq(trace, LAMBDA a : a.a = "Prompt")[i].variable]]

\* what the record of a follow_link call keeps of the call `l` made just
\* before it: the position that call started from and the destination it
\* applied; None when the step before was not a follow_link call
Prior(l) ==
  IF l.op = "follow_link"
  THEN Some([current_page |-> l.pre.current_page,
             current_link_idx |-> l.pre.current_link_idx,
             history |-> l.pre.history, applied |-> l.applied])
  ELSE None

\* the Game after follow_link returned `r`, and the record of the call
FollowLinkDone(link_idx, r) ==
  /\ SetGame(r.g)
  /\ pages' = graph_after(World, Game, link_idx, r).pages
  /\ item_defs' = graph_after(World, Game, link_idx, r).item_defs
  /\ last' = [op |-> "follow_link", idx |-> link_idx, pre |-> Fields(Game),
              static |-> r.static, applied |-> r.applied,
              proposals |-> r.g.proposals, trace |-> r.g.trace, seen |-> r.g.seen,
              pos |-> r.g.pos, evals |-> r.g.evals, from |-> Some(r.from),
              ret |-> r.ret, input |-> None, variable |-> None,
              prior |-> Prior(last), store |-> Some(r.store)]
  /\ enqueued' = enqueued \o PromptsOf(r.g.trace)

\* Game::follow_link(link_idx), link_idx ranging one past the page's links
FollowLink ==
  /\ phase = "playing" /\ panic = NoPanic /\ calls < MaxCalls
  /\ \E link_idx \in 0..Len(pages[current_page].links) :
       FollowLinkDone(link_idx, follow_link(World, Game, link_idx))
  /\ calls' = calls + 1
  /\ UNCHANGED <<build, settings, docs, phase, load_result, starting_page,
                 dialog, delivered>>

\* ui::pop_prompt_dialog: Game::pop_prompt, the prompt popped becomes the dialog
PopPrompt ==
  /\ phase = "playing" /\ panic = NoPanic
  /\ LET r == pop_prompt(Game)
     IN /\ SetGame(r.g)
        /\ dialog' = IF IsSome(r.ret) THEN r.ret ELSE dialog
        /\ last' = [NoCall EXCEPT !.op = "pop_prompt", !.pre = Fields(Game),
                                  !.ret = r.ret]
        /\ delivered' = IF IsSome(r.ret) THEN Append(delivered, Unwrap(r.ret))
                        ELSE delivered
  /\ UNCHANGED <<build, settings, docs, phase, load_result, pages, starting_page,
                 item_defs, calls, enqueued>>

PromptInputs == {"", "bob", "7", "true"}

\* ui::on_prompt_submit on the dialog of a prompt bound to a variable
PromptSubmit ==
  /\ phase = "playing" /\ panic = NoPanic
  /\ IsSome(dialog) /\ IsSome(Unwrap(dialog).variable)
  /\ \E input \in PromptInputs :
       LET r == on_prompt_submit(Game, input, Unwrap(Unwrap(dialog).variable))
       IN /\ SetGame(r.g)
          /\ dialog' = IF r.ok THEN None ELSE dialog
          /\ last' = [NoCall EXCEPT !.op = "on_prompt_submit", !.pre = Fields(Game),
                                    !.ret = IF r.ok THEN Some(input) ELSE None,
                                    !.input = Some(input),
                                    !.variable = Unwrap(dialog).variable]
  /\ UNCHANGED <<build, settings, docs, phase, load_result, pages, starting_page,
                 item_defs, calls, enqueued, delivered>>

Next == Load \/ FollowLink \/ PopPrompt \/ PromptSubmit

Spec == Init /\ [][Next]_vars

(***************************************************************************)
(* Play over holdings a caller built.  Game's fields are public and so are *)
(* Item::new and Item::mod_uses: a caller may hand follow_link a loaded    *)
(* story with any stack of instances worn through mod_uses, which clamps   *)
(* the used-count to the template's maximum.                               *)
(***************************************************************************)
MaxHeld == 2
MaxWear == 3

\* the instances Item::new(def) followed by mod_uses(n) yields
WornItems(defs, name) == {mod_uses(defs, Item_new(name), n).item : n \in 0..MaxWear}

\* the holdings: nothing, or a stack of up to MaxHeld torches
Holdings(defs) ==
  {[n \in {} |-> <<>>]}
  \cup {[n \in {"torch"} |-> st] :
          st \in UNION {[1..k -> WornItems(defs, "torch")] : k \in 1..MaxHeld}}

HeldInit ==
  /\ \E s \in WearStories :
       /\ settings = s.cfg /\ docs = s.docs
       /\ pages = parse(s.cfg, s.docs, <<"p1">>).pages
       /\ variables = s.cfg.variables
       /\ item_defs = s.cfg.items
       /\ items \in Holdings(s.cfg.items)
  /\ build \in {"debug", "release"}
  /\ phase = "playing"
  /\ load_result = NoErr
  /\ starting_page = "p1"
  /\ current_page = "p1"
  /\ current_link_idx = None
  /\ history = <<>>
  /\ prompt_queue = <<>>
  /\ panic = NoPanic
  /\ dialog = None
  /\ calls = 0
  /\ last = NoCall
  /\ enqueued = <<>>
  /\ delivered = <<>>

HeldNext == FollowLink

HeldSpec == HeldInit /\ [][HeldNext]_vars

(***************************************************************************)
(* Properties                                                              *)
(***************************************************************************)
Followed == last.op = "follow_link"
\* the last follow_link call reached destination application with d
Applied(d) == Followed /\ last.applied = Some(d)
\* the last proposal of the last call, or the link's own destination
LastProposal ==
  IF last.proposals = <<>> THEN Unwrap(last.static)
  ELSE last.proposals[Len(last.proposals)]

\* C1: the destination follow_link applies is the last destination proposed
\* during the call (link actions first, then the triggers in order), and the
\* link's static destination only when nothing was proposed; the outcome of
\* the call is that destination's (its message returned, its page current).
C1_LastProposalWins ==
  (Followed /\ IsSome(last.applied)) =>
     /\ Unwrap(last.applied) = LastProposal
     /\ (LastProposal.k = "EndGame" => last.ret = Some(LastProposal.msg))
     /\ (LastProposal.k # "EndGame" => last.ret = None)
     /\ (LastProposal.k = "Page" /\ panic = NoPanic => current_page = LastProposal.id)

\* a link with static destination D whose action proposed A and whose trigger
\* then proposed B, all three different, was followed and B was applied
C1_Witness ==
  /\ Followed /\ panic = NoPanic
  /\ Len(last.proposals) = 2 /\ Len(last.trace) = 2
  /\ last.proposals[1] # last.proposals[2]
  /\ Unwrap(last.static) # last.proposals[1]
  /\ Unwrap(last.static) # last.proposals[2]
  /\ last.applied = Some(last.proposals[2])
  /\ last.proposals[2].k = "Page" /\ current_page = last.proposals[2].id
  /\ last.pre.current_page # current_page

\* v + d as a mathematical sum clamped to [I32_MIN, I32_MAX]
ClampedSum(v, d) ==
  IF d > 0 /\ v > I32_MAX - d THEN I32_MAX
  ELSE IF d < 0 /\ v < I32_MIN - d THEN I32_MIN
  ELSE v + d

\* the last call executed a ModNum on Integer variable n as its first action
\* and nothing else that writes a variable
RanModNum(n) ==
  /\ Followed /\ Len(last.trace) >= 1
  /\ last.trace[1].a = "ModNum" /\ last.trace[1].name = n
  /\ n \in DOMAIN last.pre.variables /\ last.pre.variables[n].t = "Num"
  /\ \A i \in 2..Len(last.trace) : last.trace[i].a \in {"SetDest", "Prompt"}

\* C2: ModNum is clamped, never wrapped: after ModNum(n, d) on an Integer
\* variable holding v the variable holds v + d clamped to the i32 range, and
\* the operation does not abort.
C2_ModNumClamped ==
  \A n \in DOMAIN variables :
     RanModNum(n) =>
        /\ panic = NoPanic
        /\ variables[n] = Num(ClampedSum(last.pre.variables[n].v, last.trace[1].value))

\* C3: in every state of play each variable of the store has the tag of its
\* declaration.
C3_TagsInvariant ==
  phase = "playing" =>
     \A n \in DOMAIN variables : type_(variables[n]) = type_(settings.variables[n])

\* C4: after a successful load every page-reference destination that play
\* proposes or applies is a resolved graph edge, so destination application
\* never meets a raw page ID.
C4_NoRawPageReference ==
  Followed =>
     /\ \A i \in DOMAIN last.proposals :
           last.proposals[i].k = "Page" => last.proposals[i].side = "Right"
     /\ (IsSome(last.applied) /\ Unwrap(last.applied).k = "Page"
           => Unwrap(last.applied).side = "Right")
     /\ panic # "Left variant should only exist during parsing"

\* every action of a page document: the link actions and the trigger actions
DocActions(page) ==
  UNION {{page.links[i].actions[j] : j \in DOMAIN page.links[i].actions}
         \cup UNION {{page.links[i].triggers[k].actions[j] :
                         j \in DOMAIN page.links[i].triggers[k].actions} :
                     k \in DOMAIN page.links[i].triggers} :
         i \in DOMAIN page.links}

\* every page-reference destination of a page document
DocPageDests(page) ==
  {page.links[i].dest : i \in {j \in DOMAIN page.links : page.links[j].dest.k = "Page"}}
  \cup {a.dest : a \in {b \in DocActions(page) : b.a = "SetDest" /\ b.dest.k = "Page"}}

DocConditions(page) ==
  UNION {{page.links[i].triggers[k].condition : k \in DOMAIN page.links[i].triggers} :
         i \in DOMAIN page.links}

\* the document set names a page ID that is undeclared: a parsed page whose
\* own ID is not declared, or a destination naming an ID with no parsed page
UndeclaredPageRef ==
  \/ \E id \in DOMAIN docs : id \notin settings.pages
  \/ \E id \in DOMAIN docs : \E d \in DocPageDests(docs[id]) : d.id \notin DOMAIN docs

\* the document set has a content defect that is not about page IDs
OtherContentDefect ==
  \E id \in DOMAIN docs :
     \/ \E a \in DocActions(docs[id]) :
           a.a # "SetDest"
           /\ clean_action([err |-> NoErr], settings, DOMAIN docs, id, a).st.err # NoErr
     \/ \E c \in DocConditions(docs[id]) : clean_condition(settings, c) # NoErr

SettingsRead == deserialize_item_defs(settings.items).err = NoErr
Loaded == phase # "start"

\* C5 (as stated): a load over a document set that names an undeclared page
\* ID anywhere fails with UndeclaredPageID and returns no entry page.
C5_FailsWithUndeclaredPageID ==
  (Loaded /\ SettingsRead /\ UndeclaredPageRef) =>
     /\ phase = "failed" /\ starting_page = ""
     /\ load_result.e = "UndeclaredPageID"

\* C5 (amended): such a load fails with a load error and returns no entry
\* page; the error is UndeclaredPageID when the document set has no other
\* content defect (the loader stops at the first defect it visits).  A load
\* that succeeds returns a graph whose page-reference destinations are all
\* resolved.
C5_UndeclaredPageFailsLoad ==
  /\ (Loaded /\ SettingsRead /\ UndeclaredPageRef) =>
        /\ phase = "failed" /\ starting_page = "" /\ panic = NoPanic
        /\ load_result # NoErr
        /\ load_result.e \in {"UndeclaredPageID", "UndeclaredVariable",
                              "UndeclaredItem", "BadValueType", "BadVariableType"}
        /\ (~OtherContentDefect => load_result.e = "UndeclaredPageID")
  /\ phase = "playing" =>
        \A id \in Closure(pages, {starting_page}) :
           \A d \in DocPageDests(pages[id]) : d.side = "Right" /\ d.id \in DOMAIN pages

\* a load of a document set that names an undeclared page ID and has no other
\* defect has failed
C5_Witness ==
  /\ Loaded /\ SettingsRead /\ UndeclaredPageRef /\ ~OtherContentDefect
  /\ phase = "failed" /\ load_result.e = "UndeclaredPageID"
  /\ \A id \in DOMAIN docs : id \in settings.pages

\* every Operation of the loaded graph
GraphOperations ==
  LET RECURSIVE Ops(_)
      Ops(c) == CASE c.c = "Op" -> {c}
                  [] c.c \in {"And", "Or"} ->
                       UNION {Ops(c.children[i]) : i \in DOMAIN c.children}
                  [] OTHER -> {}
  IN UNION {UNION {Ops(c) : c \in DocConditions(pages[id])} : id \in DOMAIN pages}

\* C6: for every loaded story, in every state of play, evaluating an
\* Operation compares the variable's current value with a literal of the
\* same tag, and an ordering comparator only compares Integers: the
\* unreachable!() arms of eval_operation are never entered.
C6_ComparisonsTagCorrect ==
  phase = "playing" =>
     /\ panic # "unreachable"
     /\ (panic = NoPanic =>
           \A o \in GraphOperations :
              /\ type_(variables[o.name]) = type_(o.value)
              /\ (o.op \in {"GT", "GTE", "LT", "LTE"} => type_(o.value) = "Num"))

\* the action names only declared variables and item templates, ModNum an
\* Integer variable and ToggleBool a Boolean one
WellReferenced(a) ==
  CASE a.a = "SetVar" -> a.name \in DOMAIN settings.variables
    [] a.a = "ModNum" -> /\ a.name \in DOMAIN settings.variables
                         /\ type_(settings.variables[a.name]) = "Num"
    [] a.a = "ToggleBool" -> /\ a.name \in DOMAIN settings.variables
                             /\ type_(settings.variables[a.name]) = "Bool"
    [] a.a = "Prompt" -> IsSome(a.variable) => Unwrap(a.variable) \in DOMAIN settings.variables
    [] a.a \in {"AcquireItem", "DropItem", "UseItem"} -> a.name \in DOMAIN settings.items
    [] OTHER -> TRUE

\* C7: after a successful load every action play executes (from a link's
\* action list, a trigger or an item's effect) names only declared variables
\* and item templates, with ModNum on an Integer and ToggleBool on a Boolean
\* variable, so no content error surfaces during play.
C7_ExecutedActionsValid ==
  Followed =>
     /\ \A i \in DOMAIN last.trace : WellReferenced(last.trace[i])
     /\ panic # "index: no entry found for key"

\* the last call applied a destination that designates the page it was on
AppliedSamePage ==
  /\ Followed /\ IsSome(last.applied)
  /\ \/ Unwrap(last.applied).k = "CurrentPage"
     \/ /\ Unwrap(last.applied).k = "Page"
        /\ Unwrap(last.applied).side = "Right"
        /\ Unwrap(last.applied).id = last.pre.current_page

\* C8: following a link whose effective destination is the current page
\* itself or 'stay on current page' leaves the history stack, the current
\* page and the arrived-via index as they were.
C8_SamePageNoMove ==
  AppliedSamePage =>
     /\ history = last.pre.history
     /\ current_page = last.pre.current_page
     /\ current_link_idx = last.pre.current_link_idx
     /\ last.ret = None /\ panic = NoPanic

\* a page reference to the current page was applied on a page that was
\* arrived at through a link, with a non-empty history, by another link index
C8_Witness ==
  /\ AppliedSamePage /\ Unwrap(last.applied).k = "Page"
  /\ last.pre.history # <<>> /\ IsSome(last.pre.current_link_idx)
  /\ Some(last.idx) # last.pre.current_link_idx

\* C9: 'go to previous page' applied on an empty history leaves the current
\* page, the arrived-via index and the empty history unchanged and play
\* continues (nothing is returned).
C9_PrevOnEmptyHistory ==
  (Applied(PrevPage) /\ last.pre.history = <<>>) =>
     /\ history = <<>>
     /\ current_page = last.pre.current_page
     /\ current_link_idx = last.pre.current_link_idx
     /\ last.ret = None /\ panic = NoPanic

\* 'previous' was applied on an empty history and the call returned
C9_Witness ==
  /\ Applied(PrevPage) /\ last.pre.history = <<>> /\ panic = NoPanic
  /\ history = <<>> /\ calls > 0

\* C10: when the effective destination is End-game(M), follow_link returns M,
\* sets the arrived-via index to none and leaves the current page and the
\* history as they were; follow_link returns a message exactly when the
\* effective destination is End-game.
C10_EndGame ==
  Followed =>
     /\ (IsSome(last.applied) /\ Unwrap(last.applied).k = "EndGame") =>
           /\ last.ret = Some(Unwrap(last.applied).msg)
           /\ current_link_idx = None
           /\ current_page = last.pre.current_page
           /\ history = last.pre.history
     /\ IsSome(last.ret) <=> (IsSome(last.applied) /\ Unwrap(last.applied).k = "EndGame")

\* the game was ended on a page arrived at through a link, with a history
C10_Witness ==
  /\ Followed /\ IsSome(last.applied) /\ Unwrap(last.applied).k = "EndGame"
  /\ last.pre.history # <<>> /\ IsSome(last.pre.current_link_idx)
  /\ IsSome(last.ret)

\* the last call applied a resolved reference to a page other than the one
\* it was on
AppliedOtherPage ==
  /\ Followed /\ IsSome(last.applied)
  /\ Unwrap(last.applied).k = "Page" /\ Unwrap(last.applied).side = "Right"
  /\ Unwrap(last.applied).id # last.pre.current_page

C12_PrevPopsTop ==
  (Applied(PrevPage) /\ last.pre.history # <<>>) =>
     /\ history = SubSeq(last.pre.history, 1, Len(last.pre.history) - 1)
     /\ current_page = last.pre.history[Len(last.pre.history)].page
     /\ current_link_idx = last.pre.history[Len(last.pre.history)].link_idx
     /\ last.ret = None /\ panic = NoPanic

\* 'previous' was applied on a history of two entries: the top entry is gone,
\* its page is current again and its stored index is the arrived-via index
C12_Witness ==
  /\ Applied(PrevPage) /\ Len(last.pre.history) = 2 /\ Len(history) = 1
  /\ IsSome(current_link_idx)
  /\ current_page # last.pre.current_page

\* the last call executed the action a and nothing else
RanOnly(a) == Followed /\ last.trace = <<a>>

RECURSIVE SumUsed(_)
\* the total used-count of a stack
SumUsed(stack) == IF stack = <<>> THEN 0 ELSE Head(stack).used + SumUsed(Tail(stack))

\* min(u, m), with m an Option (None: unbounded)
MinUses(u, m) == IF IsSome(m) /\ Unwrap(m) < u THEN Unwrap(m) ELSE u

\* the stack of X the acquire-item contract yields from the stack `old`
Acquired(X, old) ==
  IF old = <<>> THEN <<[def |-> X, used |-> 0]>>
  ELSE Append([old EXCEPT ![Len(old)].used =
                 @ - MinUses(old[Len(old)].used, item_defs[X].max_uses)],
              [def |-> X, used |-> MinUses(old[Len(old)].used, item_defs[X].max_uses)])

\* C13: acquiring a declared item X appends a new instance at the back of X's
\* stack (a stack of one used-count-0 instance when X is not held); the new
\* instance takes min(u, m) of the previous back instance's used-count u and
\* that instance loses the same amount, so the stack's total used-count is
\* unchanged; no other instance and no other stack is touched.
C13_AcquireWearTransfer ==
  \A X \in DOMAIN item_defs :
     RanOnly(AcquireItem(X)) =>
        /\ panic = NoPanic
        /\ DOMAIN items = DOMAIN last.pre.items \cup {X}
        /\ items[X] = Acquired(X, IF X \in DOMAIN last.pre.items
                                  THEN last.pre.items[X] ELSE <<>>)
        /\ (X \in DOMAIN last.pre.items => SumUsed(items[X]) = SumUsed(last.pre.items[X]))
        /\ \A Y \in DOMAIN last.pre.items \ {X} : items[Y] = last.pre.items[Y]

\* a torch (max 3) was acquired while the torch held had used-count 2: the
\* new instance has used-count 2 and the previous one 0
C13_Witness ==
  /\ RanOnly(AcquireItem("torch"))
  /\ item_defs["torch"].max_uses = Some(3)
  /\ "torch" \in DOMAIN last.pre.items
  /\ last.pre.items["torch"] = <<[def |-> "torch", used |-> 2]>>
  /\ items["torch"] = <<[def |-> "torch", used |-> 0], [def |-> "torch", used |-> 2]>>

\* the link the last call followed (its index being in range)
FollowedLink == pages[last.pre.current_page].links[last.idx + 1]

\* the last call followed a link without triggers whose actions are a
\* Use-item of X followed by nothing but Set-destination actions
UsedFirst(X) ==
  /\ Followed /\ IsSome(last.static)
  /\ FollowedLink.triggers = <<>>
  /\ FollowedLink.actions # <<>>
  /\ FollowedLink.actions[1] = UseItem(X)
  /\ \A i \in 2..Len(FollowedLink.actions) : FollowedLink.actions[i].a = "SetDest"

\* before the last call the front instance of X was at its maximum used-count
FrontAtMax(X) ==
  /\ X \in DOMAIN last.pre.items /\ last.pre.items[X] # <<>>
  /\ IsSome(item_defs[X].max_uses)
  /\ last.pre.items[X][1].used = Unwrap(item_defs[X].max_uses)

\* C14: using an item whose front instance is already at its maximum
\* used-count is a no-op: the effect does not run (only the link's own
\* actions were executed), no instance is removed, nothing is proposed by
\* the use, and holdings, variables and prompt queue are unchanged.
C14_UseAtMaxNoOp ==
  \A X \in DOMAIN item_defs :
     (UsedFirst(X) /\ FrontAtMax(X)) =>
        /\ last.trace = FollowedLink.actions
        /\ Len(last.proposals) = Len(FollowedLink.actions) - 1
        /\ items = last.pre.items
        /\ variables = last.pre.variables
        /\ prompt_queue = last.pre.prompt_queue
        /\ panic = NoPanic

\* a torch at its maximum of 2, with a second torch behind it, was used by a
\* link that does nothing else
C14_Witness ==
  /\ UsedFirst("torch") /\ FrontAtMax("torch")
  /\ FollowedLink.actions = <<UseItem("torch")>>
  /\ item_defs["torch"].max_uses = Some(2)
  /\ Len(last.pre.items["torch"]) = 2
  /\ Len(items["torch"]) = 2

\* before the last call the front instance of X was one use short of its
\* maximum used-count
FrontAtLastUse(X) ==
  /\ X \in DOMAIN last.pre.items /\ last.pre.items[X] # <<>>
  /\ IsSome(item_defs[X].max_uses)
  /\ last.pre.items[X][1].used + 1 = Unwrap(item_defs[X].max_uses)

\* the holdings `held` without the front instance of X
WithoutFront(held, X) ==
  IF Len(held[X]) = 1 THEN [Y \in DOMAIN held \ {X} |-> held[Y]]
  ELSE [held EXCEPT ![X] = Tail(@)]

\* C15: when a Use-item brings the front instance of X to its maximum
\* used-count, the instance is removed from the front of its stack (the
\* stack entry too when it becomes empty) before the effect executes: the
\* effect starts from holdings without the instance.  The effect fires
\* exactly once (an effect that is not itself a Use-item is the only action
\* executed besides the link's own), and the destination it proposes is the
\* one applied when no later proposal follows.
C15_RemovedBeforeEffect ==
  \A X \in DOMAIN item_defs :
     (UsedFirst(X) /\ FrontAtLastUse(X)) =>
        /\ Len(last.trace) >= 2
        /\ last.trace[1] = UseItem(X)
        /\ last.trace[2] = item_defs[X].effect
        /\ last.seen[1] = last.pre.items
        /\ last.seen[2] = WithoutFront(last.pre.items, X)
        /\ (item_defs[X].effect.a # "UseItem" /\ panic = NoPanic =>
              last.trace = <<UseItem(X), item_defs[X].effect>> \o Tail(FollowedLink.actions))
        /\ (item_defs[X].effect.a = "SetDest" /\ Len(FollowedLink.actions) = 1 =>
              last.applied = Some(item_defs[X].effect.dest))

\* the only torch held (max 2, used once) was used by a link that does
\* nothing else; its effect proposed the end of the game, which was applied
\* while no torch was held any more
C15_Witness ==
  /\ UsedFirst("torch") /\ FrontAtLastUse("torch")
  /\ FollowedLink.actions = <<UseItem("torch")>>
  /\ item_defs["torch"].max_uses = Some(2)
  /\ Len(last.pre.items["torch"]) = 1
  /\ item_defs["torch"].effect = SetDest(EndGame("boom"))
  /\ "torch" \notin DOMAIN last.seen[2]
  /\ last.ret = Some("boom")
  /\ "torch" \notin DOMAIN items

\* the last call was follow_link with an index outside the link list of the
\* page it was called on
OutOfRange ==
  /\ Followed
  /\ last.idx >= Len(pages[last.pre.current_page].links)

\* C16: follow_link with an index outside the current page's link list is
\* reported back to the caller as a rejected operation (the call returns,
\* it does not abort) and leaves current page, arrived-via index, history,
\* prompt queue, variables and items unchanged.
C16_OutOfRangeRejected ==
  OutOfRange =>
     /\ panic = NoPanic
     /\ Fields(Game) = last.pre

\* the value of tag `tag` an answer spells, if any: every non-empty text
\* spells a String, "7" also an Integer and "true" also a Boolean
AnswerAs(input, tag) ==
  CASE input = "" -> None
    [] tag = "Str" -> Some(Str(input))
    [] tag = "Num" /\ input = "7" -> Some(Num(7))
    [] tag = "Bool" /\ input = "true" -> Some(Bool(TRUE))
    [] OTHER -> None

\* the last call answered a prompt bound to a variable of the store
Answered ==
  /\ last.op = "on_prompt_submit"
  /\ Unwrap(last.variable) \in DOMAIN last.pre.variables

\* the tag the answered variable had
AnsweredTag == type_(last.pre.variables[Unwrap(last.variable)])

\* C17: answering a prompt bound to variable V is type-checked: an answer
\* that spells a value of V's current tag replaces V's value and changes
\* nothing else; an answer that spells no value of that tag, or an empty
\* one, is rejected and leaves the variable store and the rest of the
\* engine state unchanged.
C17_AnswerTypeChecked ==
  Answered =>
     /\ panic = NoPanic
     /\ IF IsSome(AnswerAs(Unwrap(last.input), AnsweredTag))
        THEN /\ IsSome(last.ret)
             /\ Fields(Game) =
                  [last.pre EXCEPT !.variables[Unwrap(last.variable)] =
                      Unwrap(AnswerAs(Unwrap(last.input), AnsweredTag))]
        ELSE /\ ~IsSome(last.ret)
             /\ Fields(Game) = last.pre

\* C18: the prompt queue is FIFO across any sequence of operations: the
\* prompts delivered so far followed by the prompts waiting are exactly the
\* prompts the Prompt actions enqueued, in the order those actions executed;
\* a follow_link call appends its prompts to the back, pop_prompt returns
\* and removes the front and changes nothing else, and pop_prompt on an
\* empty queue returns none and changes nothing.
C18_PromptFifo ==
  /\ enqueued = delivered \o prompt_queue
  /\ Followed => prompt_queue = last.pre.prompt_queue \o PromptsOf(last.trace)
  /\ last.op = "pop_prompt" =>
        IF last.pre.prompt_queue = <<>>
        THEN last.ret = None /\ Fields(Game) = last.pre
        ELSE /\ last.ret = Some(Head(last.pre.prompt_queue))
             /\ Fields(Game) = [last.pre EXCEPT !.prompt_queue = Tail(@)]

\* two follow_link calls enqueued prompts, the first of them was delivered
\* and prompts of both calls, different ones among them, are still waiting
C18_Witness ==
  /\ last.op = "pop_prompt" /\ IsSome(last.ret)
  /\ delivered = <<enqueued[1]>>
  /\ Len(prompt_queue) >= 4
  /\ prompt_queue[1] # enqueued[1]
  /\ prompt_queue[Len(prompt_queue)] # prompt_queue[1]

\* what a comparison denotes: false when the tags do not admit it
Compares(var, op, value) ==
  IF var.t # value.t THEN FALSE
  ELSE CASE op = "EQ" -> var.v = value.v
         [] op = "NEQ" -> var.v # value.v
         [] var.t # "Num" -> FALSE
         [] op = "GT" -> var.v > value.v
         [] op = "GTE" -> var.v >= value.v
         [] op = "LT" -> var.v < value.v
         [] op = "LTE" -> var.v <= value.v

RECURSIVE Holds(_, _)
\* what a condition denotes over the fields f: a conjunction holds when all
\* its children hold, a disjunction when at least one does, a negation when
\* its child does not
Holds(f, c) ==
  CASE c.c = "And" -> \A i \in DOMAIN c.children : Holds(f, c.children[i])
    [] c.c = "Or" -> \E i \in DOMAIN c.children : Holds(f, c.children[i])
    [] c.c = "Op" -> /\ c.name \in DOMAIN f.variables
                     /\ Compares(f.variables[c.name], c.op, c.value)
    [] c.c = "HasItem" -> c.name \in DOMAIN f.items
    [] c.c = "Not" -> ~Holds(f, c.child)

\* the last call followed a link without actions that has one trigger, and
\* the evaluation of its condition returned
EvaluatedOne ==
  /\ Followed /\ IsSome(last.static)
  /\ FollowedLink.actions = <<>>
  /\ Len(FollowedLink.triggers) = 1
  /\ panic = NoPanic

\* C19: a conjunction evaluates to true iff all its children are true and a
\* disjunction iff at least one child is, at every nesting and in every
\* state (an empty conjunction is true, an empty disjunction false): the
\* trigger's actions run exactly when its condition holds over the state the
\* call started in.  Evaluation changes no engine state: a call whose
\* trigger does not fire leaves every field as it was.
C19_AndOrSemantics ==
  EvaluatedOne =>
     /\ IF Holds(last.pre, FollowedLink.triggers[1].condition)
        THEN /\ last.trace = FollowedLink.triggers[1].actions
             /\ (last.trace # <<>> => last.seen[1] = last.pre.items)
        ELSE last.trace = <<>>
     /\ (last.trace = <<>> /\ last.static = Some(CurrentPage) => Fields(Game) = last.pre)
     /\ (last.trace = <<SetDest(EndGame("yes"))>> /\ last.static = Some(CurrentPage)
           => Fields(Game) = [last.pre EXCEPT !.current_link_idx = None])

\* a disjunction of an empty conjunction and a false leaf fired its trigger,
\* in a state where the leaf 'holds a torch' was false
C19_Witness ==
  /\ EvaluatedOne
  /\ FollowedLink.triggers[1].condition = Or(<<HasItem("torch"), And(<<>>)>>)
  /\ "torch" \notin DOMAIN last.pre.items
  /\ last.trace = <<SetDest(EndGame("yes"))>>
  /\ last.ret = Some("yes")

\* the page documents guard a trigger by a negation
HasNegation ==
  \E id \in DOMAIN docs : \E c \in DocConditions(docs[id]) : c.c = "Not"

\* C20: a negation evaluates to the complement of its child, for every child
\* and every engine state: a story whose trigger is guarded by 'not C' loads
\* and plays, and the trigger runs exactly when C is false.
C20_NegationComplement ==
  (HasNegation /\ SettingsRead /\ ~OtherContentDefect) =>
     /\ (Loaded => phase = "playing" /\ load_result = NoErr)
     /\ (EvaluatedOne /\ FollowedLink.triggers[1].condition.c = "Not" =>
           (last.trace = FollowedLink.triggers[1].actions
              <=> ~Holds(last.pre, FollowedLink.triggers[1].condition.child)))

\* the number of instances of X in the holdings `held`
HeldCount(held, X) == IF X \in DOMAIN held THEN Len(held[X]) ELSE 0

\* C21: the holdings never contain an empty stack, neither between calls nor
\* at the start of any action of a call (after any sequence of acquire, drop
\* and use actions), and a trigger guarded by HasItem(X) evaluates to true
\* exactly when at least one instance of X is held at that moment.
C21_HasItemIffHeld ==
  /\ \A X \in DOMAIN items : items[X] # <<>>
  /\ Followed =>
       /\ \A i \in DOMAIN last.seen : \A X \in DOMAIN last.seen[i] : last.seen[i][X] # <<>>
       /\ \A i \in DOMAIN last.evals :
            (last.evals[i].condition.c = "HasItem" /\ last.evals[i].panic = NoPanic) =>
               (last.evals[i].val
                  <=> HeldCount(last.evals[i].items, last.evals[i].condition.name) >= 1)

\* the only torch held was used up by the link's action, and the link's
\* trigger, guarded by HasItem(torch), then evaluated to false
C21_Witness ==
  /\ Followed /\ panic = NoPanic
  /\ HeldCount(last.pre.items, "torch") = 1
  /\ Len(last.evals) = 1
  /\ last.evals[1].condition = HasItem("torch")
  /\ ~last.evals[1].val
  /\ last.trace[1] = UseItem("torch")
  /\ "torch" \notin DOMAIN items

\* the holdings of the templates that have a maximum-use count
Limited(held) == [X \in {Y \in DOMAIN held : IsSome(item_defs[Y].max_uses)} |-> held[X]]

\* the nested executions of the last call came back to the Use-item they
\* started from: between positions i and j of the trace every action is a
\* Use-item of a held item without maximum, each one the effect of the one
\* before, and the instances that can wear out are as they were
Recurs(i, j) ==
  /\ i < j
  /\ last.trace[i] = last.trace[j]
  /\ Limited(last.seen[i]) = Limited(last.seen[j])
  /\ \A k \in i..j :
       /\ last.trace[k].a = "UseItem"
       /\ last.trace[k].name \in DOMAIN last.seen[k]
       /\ ~IsSome(item_defs[last.trace[k].name].max_uses)
  /\ \A k \in i..(j - 1) : last.trace[k + 1] = item_defs[last.trace[k].name].effect

\* the last call nested item effects without end and exhausted the stack
Diverged ==
  /\ Followed /\ panic = "stack overflow"
  /\ \E i, j \in DOMAIN last.trace : Recurs(i, j)

\* C22: every follow_link call runs to completion: for every loadable story,
\* item templates whose effect uses the same item or another one in a cycle
\* included, the nested execution of item effects terminates.
C22_FollowLinkTerminates == ~Diverged

\* the load has just succeeded: no engine call was made yet
JustLoaded == phase = "playing" /\ last = NoCall

\* the outcome `r` of a load is a graph with the entry page, the page IDs,
\* the reachable page IDs and, page by page, the links (their count, their
\* destinations, actions and triggers) of the graph that was loaded
SameGraph(r) ==
  /\ r.err = NoErr /\ r.panic = NoPanic
  /\ r.entry = Some(starting_page)
  /\ DOMAIN r.pages = DOMAIN pages
  /\ Closure(r.pages, {Unwrap(r.entry)}) = Closure(pages, {starting_page})
  /\ \A id \in DOMAIN pages :
       /\ Len(r.pages[id].links) = Len(pages[id].links)
       /\ r.pages[id].links = pages[id].links

\* C23: loading is deterministic: loading the settings and documents of a
\* successful load again, the pages being visited in any order, succeeds
\* and yields a graph with the same entry page, the same reachable page IDs
\* and the same links on every page.
C23_LoadDeterministic ==
  JustLoaded => \A order \in Perms(DOMAIN docs) : SameGraph(parse(settings, docs, order))

\* a story of three pages was loaded, and visiting its pages in another
\* order records the back-references of some page in another order
C23_Witness ==
  /\ JustLoaded
  /\ Cardinality(DOMAIN docs) = 3
  /\ \E order \in Perms(DOMAIN docs) :
       \E id \in DOMAIN pages :
          /\ parse(settings, docs, order).pages[id].parents # pages[id].parents
          /\ Len(pages[id].parents) >= 2

\* the documents pass validation: the settings are read, every document is
\* parsed and no page ID, variable, item or type defect is in them
ValidationPasses ==
  /\ SettingsRead /\ read_pages(docs).err = NoErr
  /\ ~UndeclaredPageRef /\ ~OtherContentDefect

\* no parsed page has the base name of the entry file as its ID
EntryMissing ==
  \/ ~IsSome(settings.entrypoint)
  \/ Unwrap(settings.entrypoint) \notin DOMAIN docs

\* C24: a successful load returns the page whose ID is the base name of the
\* entry file; when validation passes but no parsed page has that ID the
\* load fails with an internal/configuration error result: it returns no
\* page, reports no content error and does not abort.
C24_EntryPageLookup ==
  Loaded =>
     /\ phase = "playing" =>
           /\ settings.entrypoint = Some(starting_page)
           /\ starting_page \in DOMAIN pages
           /\ pages[starting_page].id = starting_page
     /\ (ValidationPasses /\ EntryMissing) =>
           /\ phase = "failed" /\ starting_page = ""
           /\ panic = NoPanic
           /\ load_result.e = "Internal"

\* C25: the story graph and the item templates are read-only during play:
\* no follow_link, pop_prompt or prompt answer changes a page, a link's
\* destination, actions or triggers, an item template or the entry page;
\* only the fields of the engine state change.
C25_GraphReadOnly ==
  [][phase = "playing" =>
        /\ pages' = pages
        /\ item_defs' = item_defs
        /\ starting_page' = starting_page
        /\ settings' = settings]_vars

\* a link was followed whose destination was overridden by a proposal, whose
\* actions changed the holdings and the variables, and the link still has
\* its own destination
C25_Witness ==
  /\ Followed /\ panic = NoPanic
  /\ IsSome(last.applied) /\ last.applied # last.static
  /\ FollowedLink.dest = Unwrap(last.static)
  /\ items # last.pre.items
  /\ variables # last.pre.variables

\* no action of the list is a Use-item: the list runs no nested effect
NoUse(actions) == \A i \in DOMAIN actions : actions[i].a # "UseItem"

\* the last call followed a link none of whose actions, its triggers'
\* included, is a Use-item, and returned
FollowedPlain ==
  /\ Followed /\ IsSome(last.static) /\ panic = NoPanic
  /\ NoUse(FollowedLink.actions)
  /\ \A k \in DOMAIN FollowedLink.triggers : NoUse(FollowedLink.triggers[k].actions)

\* the position in the trace where the actions run after evaluation i end
SegmentEnd(i) == IF i < Len(last.evals) THEN last.evals[i + 1].at ELSE Len(last.trace)

\* C26: the triggers are evaluated in list order after the link's whole
\* action list has run; each condition is evaluated against the variables
\* and holdings as they are at that moment (those the link's actions and the
\* actions of the earlier triggers that fired have left); a trigger whose
\* condition is true runs its actions then, one whose condition is false
\* runs none.
C26_TriggersSeeCurrentState ==
  FollowedPlain =>
     /\ Len(last.evals) = Len(FollowedLink.triggers)
     /\ SubSeq(last.trace, 1, Len(FollowedLink.actions)) = FollowedLink.actions
     /\ \A i \in DOMAIN last.evals :
          /\ last.evals[i].condition = FollowedLink.triggers[i].condition
          /\ last.evals[i].val <=> Holds(last.evals[i], last.evals[i].condition)
          /\ (i = 1 => last.evals[i].at = Len(FollowedLink.actions))
          /\ SubSeq(last.trace, last.evals[i].at + 1, SegmentEnd(i)) =
               (IF last.evals[i].val THEN FollowedLink.triggers[i].actions ELSE <<>>)
          /\ (last.evals[i].at >= 1 /\ last.trace[last.evals[i].at].a \in {"SetDest", "Prompt"}
                => last.evals[i].items = last.seen[last.evals[i].at])
          /\ (SegmentEnd(i) > last.evals[i].at
                => last.seen[last.evals[i].at + 1] = last.evals[i].items)
          /\ (SegmentEnd(i) = last.evals[i].at =>
                IF i < Len(last.evals)
                THEN /\ last.evals[i + 1].variables = last.evals[i].variables
                     /\ last.evals[i + 1].items = last.evals[i].items
                ELSE /\ variables = last.evals[i].variables
                     /\ items = last.evals[i].items)

\* the link's action made the first trigger's condition true, that trigger's
\* action made the second trigger's condition true, and the second trigger
\* ended the game: neither condition held when the call started
C26_Witness ==
  /\ FollowedPlain
  /\ Len(last.evals) = 2
  /\ last.evals[1].val /\ last.evals[2].val
  /\ ~Holds(last.pre, last.evals[1].condition)
  /\ ~Holds(last.evals[1], last.evals[2].condition)
  /\ ~Holds(last.pre, last.evals[2].condition)
  /\ Len(last.trace) = 3
  /\ last.ret = Some("two")

\* the destinations the Set-destination actions of a trace propose, in the
\* order of the trace
ProposalsOf(trace) ==
  [i \in 1..Len(SelectSeq(trace, LAMBDA a : a.a = "SetDest")) |->
     SelectSeq(trace, LAMBDA a : a.a = "SetDest")[i].dest]

\* what one action makes of the variable store vs
ApplyVar(vs, a) ==
  CASE a.a = "SetVar" /\ a.name \in DOMAIN vs -> [vs EXCEPT ![a.name] = a.value]
    [] a.a = "ModNum" /\ a.name \in DOMAIN vs /\ vs[a.name].t = "Num" ->
         [vs EXCEPT ![a.name] = Num(ClampedSum(@.v, a.value))]
    [] a.a = "ToggleBool" /\ a.name \in DOMAIN vs /\ vs[a.name].t = "Bool" ->
         [vs EXCEPT ![a.name] = Bool(~@.v)]
    [] OTHER -> vs

RECURSIVE FoldVars(_, _)
\* what the actions of a trace, applied one after the other, make of vs
FoldVars(vs, trace) ==
  IF trace = <<>> THEN vs ELSE FoldVars(ApplyVar(vs, Head(trace)), Tail(trace))

RECURSIVE Outer(_)
\* the trace of the last call from position i on, without the effect that
\* follows each Use-item of a held item
Outer(i) ==
  IF i > Len(last.trace) THEN <<>>
  ELSE IF last.trace[i].a = "UseItem" /\ last.trace[i].name \in DOMAIN last.seen[i]
  THEN <<last.trace[i]>> \o Outer(i + 2)
  ELSE <<last.trace[i]>> \o Outer(i + 1)

\* the holdings the action at position i of the trace left
SeenAfter(i) == IF i < Len(last.trace) THEN last.seen[i + 1] ELSE items

\* the last call followed a link without triggers, the items its actions
\* use have an effect that is not itself a Use-item, and the call returned
RanList ==
  /\ Followed /\ IsSome(last.static) /\ panic = NoPanic
  /\ FollowedLink.triggers = <<>>
  /\ \A i \in DOMAIN FollowedLink.actions :
        FollowedLink.actions[i].a = "UseItem" =>
           /\ FollowedLink.actions[i].name \in DOMAIN item_defs
           /\ item_defs[FollowedLink.actions[i].name].effect.a # "UseItem"

\* no number of the call is near the ends of the i32 range
SmallNumbers ==
  /\ \A n \in DOMAIN last.pre.variables :
        last.pre.variables[n].t = "Num" =>
           (last.pre.variables[n].v < 100 /\ last.pre.variables[n].v > 0 - 100)
  /\ \A i \in DOMAIN last.trace :
        last.trace[i].a = "ModNum" => (last.trace[i].value < 100 /\ last.trace[i].value > 0 - 100)

\* C27: the action executor applies each action of its list exactly once, in
\* list order, a Use-item of a held item being followed at once by the
\* item's effect; each action starts from what the earlier ones left (the
\* variables are those the executed actions yield one after the other, an
\* acquire adds one instance and a drop removes one); the destination
\* returned is the last one proposed in execution order, a nested effect's
\* proposal counting at the place of its Use-item, and none when nothing was
\* proposed (the link's own destination is then applied).
C27_ExecutorOrder ==
  RanList =>
     /\ Outer(1) = FollowedLink.actions
     /\ (last.trace # <<>> => last.seen[1] = last.pre.items)
     /\ \A i \in DOMAIN last.trace :
          /\ (last.trace[i].a = "UseItem" /\ last.trace[i].name \in DOMAIN last.seen[i])
                => /\ i < Len(last.trace)
                   /\ last.trace[i + 1] = item_defs[last.trace[i].name].effect
          /\ (last.trace[i].a = "AcquireItem" =>
                HeldCount(SeenAfter(i), last.trace[i].name)
                   = HeldCount(last.seen[i], last.trace[i].name) + 1)
          /\ (last.trace[i].a = "DropItem" /\ last.trace[i].name \in DOMAIN last.seen[i] =>
                HeldCount(SeenAfter(i), last.trace[i].name)
                   = HeldCount(last.seen[i], last.trace[i].name) - 1)
          /\ (last.trace[i].a \notin {"AcquireItem", "DropItem", "UseItem"} =>
                SeenAfter(i) = last.seen[i])
     /\ (SmallNumbers => variables = FoldVars(last.pre.variables, last.trace))
     /\ last.proposals = ProposalsOf(last.trace)
     /\ last.applied = Some(IF last.proposals = <<>> THEN FollowedLink.dest
                            ELSE last.proposals[Len(last.proposals)])

\* a link proposed a destination and then used a torch whose effect proposes
\* the end of the game: the effect's proposal, made later, was applied
C27_Witness ==
  /\ RanList
  /\ Len(FollowedLink.actions) = 3
  /\ FollowedLink.actions[2] = SetDest(EndGame("early"))
  /\ FollowedLink.actions[3] = UseItem("torch")
  /\ last.trace[4] = SetDest(EndGame("boom"))
  /\ last.proposals = <<EndGame("early"), EndGame("boom")>>
  /\ last.ret = Some("boom")

\* where the player was when the last call started
PrePos == [current_page |-> last.pre.current_page,
           current_link_idx |-> last.pre.current_link_idx,
           history |-> last.pre.history]

\* C28: a Set-destination action never moves the player: during a
\* follow_link call every action and every trigger condition finds the
\* current page, the arrived-via index and the history as they were when the
\* call started, and so does the destination-application step; only that
\* step moves, so per call the current page changes at most once (to the
\* page applied or to the page of the popped entry) and the history grows or
\* shrinks by at most one entry.
C28_MoveOnlyAtEnd ==
  Followed =>
     /\ \A i \in DOMAIN last.pos : last.pos[i] = PrePos
     /\ \A i \in DOMAIN last.evals : last.evals[i].pos = PrePos
     /\ last.from = Some(PrePos)
     /\ (~IsSome(last.applied) => Position(Game) = PrePos)
     /\ (current_page # last.pre.current_page =>
           /\ IsSome(last.applied)
           /\ Unwrap(last.applied).k \in {"Page", "PrevPage"}
           /\ (Unwrap(last.applied).k = "Page" => current_page = Unwrap(last.applied).id)
           /\ (Unwrap(last.applied).k = "PrevPage" =>
                 current_page = last.pre.history[Len(last.pre.history)].page))
     /\ \/ history = last.pre.history
        \/ /\ Len(history) = Len(last.pre.history) + 1
           /\ SubSeq(history, 1, Len(last.pre.history)) = last.pre.history
        \/ /\ Len(history) = Len(last.pre.history) - 1
           /\ history = SubSeq(last.pre.history, 1, Len(history))

\* a link's action proposed one page and its trigger then another: the
\* trigger ran while the player was still on the page the call started on,
\* and the call moved once, to the second page, pushing one history entry
C28_Witness ==
  /\ Followed /\ panic = NoPanic
  /\ Len(last.proposals) = 2
  /\ last.proposals[1].k = "Page" /\ last.proposals[2].k = "Page"
  /\ last.proposals[1].id # last.proposals[2].id
  /\ last.proposals[1].id # last.pre.current_page
  /\ Len(last.pos) = 2 /\ last.pos[2].current_page = last.pre.current_page
  /\ current_page = last.proposals[2].id
  /\ Len(history) = Len(last.pre.history) + 1

\* C29: Drop-item on X removes exactly the front (oldest) instance of X's
\* stack and keeps the remaining instances in order, removes the stack entry
\* when it becomes empty, fires no effect (the drop is the only action
\* executed) and touches nothing else; when X is not held the whole state
\* stays as it was.
C29_DropFront ==
  \A X \in DOMAIN item_defs :
     RanOnly(DropItem(X)) =>
        /\ panic = NoPanic
        /\ last.proposals = <<>>
        /\ IF X \in DOMAIN last.pre.items
           THEN /\ items = WithoutFront(last.pre.items, X)
                /\ (Len(last.pre.items[X]) = 1 => X \notin DOMAIN items)
                /\ (Len(last.pre.items[X]) > 1 => items[X] = Tail(last.pre.items[X]))
           ELSE items = last.pre.items
        /\ variables = last.pre.variables
        /\ prompt_queue = last.pre.prompt_queue
        /\ (last.applied = Some(CurrentPage) =>
              Fields(Game) = [last.pre EXCEPT !.items = items])

\* a torch was dropped from a stack of two whose front instance was unused
\* and whose back instance had been used twice: the used one is left
C29_Witness ==
  /\ RanOnly(DropItem("torch"))
  /\ "torch" \in DOMAIN last.pre.items
  /\ last.pre.items["torch"] = <<[def |-> "torch", used |-> 0], [def |-> "torch", used |-> 2]>>
  /\ items["torch"] = <<[def |-> "torch", used |-> 2]>>

\* the action writes a variable
WritesVar(a) == a.a \in {"SetVar", "ModNum", "ToggleBool"}

\* every variable the last call's actions wrote was absent from the store,
\* and at least one action wrote one
WroteOnlyAbsent ==
  /\ Followed /\ panic = NoPanic
  /\ \E i \in DOMAIN last.trace : WritesVar(last.trace[i])
  /\ \A i \in DOMAIN last.trace :
        WritesVar(last.trace[i]) => last.trace[i].name \notin DOMAIN last.pre.variables

\* C30: Set-variable, increment-number and toggle-boolean naming a variable
\* that is absent from the store leave the whole store unchanged and create
\* no variable; the names in the store are the declared names in every state
\* of play.
C30_AbsentVariableNoOp ==
  /\ phase = "playing" => DOMAIN variables = DOMAIN settings.variables
  /\ WroteOnlyAbsent => variables = last.pre.variables

\* a torch whose effect increments the undeclared variable ghost was used:
\* the effect ran, the store is as it was and has no ghost
C30_Witness ==
  /\ WroteOnlyAbsent
  /\ \E i \in DOMAIN last.trace : last.trace[i] = ModNum("ghost", 1)
  /\ "ghost" \notin DOMAIN variables
  /\ variables = last.pre.variables

\* the places of a page document that name page Q as a destination: the
\* link's own destination (trig 0, act 0), a SetDest among the link's actions
\* (trig 0) or among the actions of one of its triggers
RefSites(page, Q) ==
  {[link |-> i, trig |-> 0, act |-> 0] :
      i \in {l \in DOMAIN page.links :
               page.links[l].dest.k = "Page" /\ page.links[l].dest.id = Q}}
  \cup UNION {{[link |-> i, trig |-> 0, act |-> j] :
                  j \in {b \in DOMAIN page.links[i].actions :
                           /\ page.links[i].actions[b].a = "SetDest"
                           /\ page.links[i].actions[b].dest.k = "Page"
                           /\ page.links[i].actions[b].dest.id = Q}} :
              i \in DOMAIN page.links}
  \cup UNION {UNION {{[link |-> i, trig |-> k, act |-> j] :
                         j \in {b \in DOMAIN page.links[i].triggers[k].actions :
                                  /\ page.links[i].triggers[k].actions[b].a = "SetDest"
                                  /\ page.links[i].triggers[k].actions[b].dest.k = "Page"
                                  /\ page.links[i].triggers[k].actions[b].dest.id = Q}} :
                     k \in DOMAIN page.links[i].triggers} :
              i \in DOMAIN page.links}

\* how many back-references to P the list of page Q holds
BackRefs(Q, P) == Cardinality({i \in DOMAIN pages[Q].parents : pages[Q].parents[i] = P})

\* a load whose documents have no defect and whose entry page exists
\* succeeds: it neither returns an error nor aborts
CleanLoadSucceeds ==
  (Loaded /\ ValidationPasses /\ ~EntryMissing) => (phase = "playing" /\ load_result = NoErr)

\* C31: after a successful load, for every page-reference
\* destination on every page P that targets page Q, self-loops included, the
\* back-reference list of Q holds a reference to P; and a back-reference that
\* could not be recorded never aborts the load.
C31_BackReferencesAll ==
  /\ JustLoaded =>
        \A P \in DOMAIN pages : \A Q \in DOMAIN pages :
           RefSites(docs[P], Q) # {} => BackRefs(Q, P) >= 1
  /\ CleanLoadSucceeds

\* the settings document gives template n a maximum-use count that is
\* present and outside [1, 32767]
MaxOutside(n) ==
  /\ IsSome(settings.items[n].max_uses)
  /\ (Unwrap(settings.items[n].max_uses) < 1 \/ Unwrap(settings.items[n].max_uses) > 32767)

\* C32: an item template whose maximum-use count is present but outside
\* [1, 32767] is rejected when the settings are read (the load fails there,
\* no game is built), so every template of a game in play has no maximum or
\* a maximum in [1, 32767].
C32_MaxUsesInRange ==
  /\ (Loaded /\ \E n \in DOMAIN settings.items : MaxOutside(n)) =>
        /\ phase = "failed" /\ load_result.e = "Deserialize"
        /\ item_defs = <<>> /\ starting_page = "" /\ panic = NoPanic
  /\ phase = "playing" =>
        \A n \in DOMAIN item_defs :
           \/ item_defs[n].max_uses = None
           \/ /\ IsSome(item_defs[n].max_uses)
              /\ 1 <= Unwrap(item_defs[n].max_uses)
              /\ Unwrap(item_defs[n].max_uses) <= 32767

\* settings whose torch has a maximum of 0 were read and rejected
C32_Witness ==
  /\ phase = "failed" /\ load_result.e = "Deserialize"
  /\ "torch" \in DOMAIN settings.items
  /\ settings.items["torch"].max_uses = Some(0)

\* the pages strongly reachable from the starting page through link edges
FromStart == Closure(pages, {starting_page})

\* C33: in every state of play the page of each history entry still
\* resolves: the current page and every page of the history are strongly
\* reachable from the starting page through link edges, the page map of the
\* loader being gone, so going to the previous page never meets a weak
\* reference that cannot be upgraded.
C33_HistoryResolves ==
  phase = "playing" =>
     /\ current_page \in FromStart
     /\ \A i \in DOMAIN history :
           /\ history[i].page \in FromStart
           /\ history[i].page \in Alive(World, Game)
     /\ panic # "unwrap on None (upgrade)"

\* 'go to previous page' was applied on a page from which the page of the
\* popped entry cannot be reached: the entry resolved to the starting page,
\* which only the Game keeps alive
C33_Witness ==
  /\ Followed /\ panic = NoPanic
  /\ last.applied = Some(PrevPage)
  /\ last.pre.history # <<>>
  /\ current_page = last.pre.history[Len(last.pre.history)].page
  /\ current_page \notin Closure(pages, {last.pre.current_page})

\* C34: used-count bounds: in every state of play every held instance has a
\* used-count of at least 0, and every held instance of a template with
\* maximum m has a used-count strictly below m (an instance is removed when
\* it reaches m and an acquire never transfers an instance up to m), so the
\* front instance held is never at its maximum.
C34_UsedBelowMax ==
  phase = "playing" =>
     \A X \in DOMAIN items :
        /\ X \in DOMAIN item_defs
        /\ \A i \in DOMAIN items[X] :
              /\ items[X][i].used >= 0
              /\ (IsSome(item_defs[X].max_uses) =>
                    items[X][i].used < Unwrap(item_defs[X].max_uses))

\* of two torches (max 2) both one use below the maximum, the front one was
\* used: it reached 2 and was removed, the other is held with used-count 1
C34_Witness ==
  /\ Followed /\ panic = NoPanic
  /\ "torch" \in DOMAIN item_defs /\ item_defs["torch"].max_uses = Some(2)
  /\ "torch" \in DOMAIN last.pre.items
  /\ last.pre.items["torch"] = <<[def |-> "torch", used |-> 1], [def |-> "torch", used |-> 1]>>
  /\ last.trace # <<>> /\ last.trace[1] = UseItem("torch")
  /\ "torch" \in DOMAIN items
  /\ items["torch"] = <<[def |-> "torch", used |-> 1]>>

\* the call before the last one was a follow_link that navigated from its
\* position (C, a, H) to a different page, and the last call, made on that
\* page, applied 'go to previous page'
WentAndCameBack ==
  /\ Applied(PrevPage)
  /\ IsSome(last.prior)
  /\ IsSome(Unwrap(last.prior).applied)
  /\ Unwrap(Unwrap(last.prior).applied).k = "Page"
  /\ last.pre.current_page # Unwrap(last.prior).current_page

\* C35: forward-then-back round trip: from current page C, arrived-via
\* index a and history H, following a link that navigates to a different
\* page P and then following a link whose effective destination is 'go to
\* previous page' restores current page C, arrived-via index a and history
\* H exactly.
C35_ForwardBackRoundTrip ==
  WentAndCameBack =>
     /\ panic = NoPanic
     /\ current_page = Unwrap(last.prior).current_page
     /\ current_link_idx = Unwrap(last.prior).current_link_idx
     /\ history = Unwrap(last.prior).history

\* the round trip started on a page arrived at through a link, with a
\* non-empty history, and the two calls followed links of different indices
C35_Witness ==
  /\ WentAndCameBack /\ panic = NoPanic
  /\ IsSome(Unwrap(last.prior).current_link_idx)
  /\ Unwrap(last.prior).history # <<>>
  /\ current_link_idx # Some(last.idx)
  /\ current_page # last.pre.current_page
  /\ history # last.pre.history

\* C36: history shape: in every state of play the page of the top history
\* entry differs from the current page and any two adjacent history entries
\* refer to different pages (an entry is pushed only when the destination
\* page differs from the page being left).
C36_HistoryShape ==
  phase = "playing" =>
     /\ (history # <<>> => history[Len(history)].page # current_page)
     /\ \A i \in 1..(Len(history) - 1) : history[i].page # history[i + 1].page

\* 'go to previous page' popped the top of a history of two entries: one
\* entry is left under the page that is current again
C36_Witness ==
  /\ Applied(PrevPage) /\ panic = NoPanic
  /\ Len(last.pre.history) = 2
  /\ Len(history) = 1
  /\ history[1].page # current_page
  /\ current_page = last.pre.history[2].page

\* the variable store, the holdings and the prompt queue of the state
StoreNow == [variables |-> variables, items |-> items, prompt_queue |-> prompt_queue]

\* C37: destination application touches the position only: applying any
\* destination (page, stay, previous, end) leaves the variable store, the
\* holdings and the prompt queue as the actions and triggers of the link
\* left them; in particular going to the previous page keeps the changes
\* made by the links followed since.
C37_DestinationKeepsStore ==
  (Followed /\ IsSome(last.applied)) => StoreNow = Unwrap(last.store)

\* from the entry state a link was followed to another page and the next
\* link went back to the previous page; both changed the store: the position
\* is the entry position again, the variables and holdings are not
C37_Witness ==
  /\ WentAndCameBack /\ panic = NoPanic /\ calls = 2
  /\ current_page = starting_page /\ history = <<>> /\ current_link_idx = None
  /\ variables # settings.variables
  /\ items # <<>>
  /\ variables # last.pre.variables
  /\ items # last.pre.items

RECURSIVE OrdersOn(_, _)
\* condition c compares variable n with an ordering comparator somewhere
OrdersOn(c, n) ==
  CASE c.c \in {"And", "Or"} -> \E i \in DOMAIN c.children : OrdersOn(c.children[i], n)
    [] c.c = "Not" -> OrdersOn(c.child, n)
    [] c.c = "Op" -> c.name = n /\ c.op \in {"GT", "GTE", "LT", "LTE"}
    [] OTHER -> FALSE

\* the tags the documents require of variable n: Integer where a ModNum or
\* an ordering comparator names it, Boolean where a ToggleBool names it
RequiredTags(n) ==
  {t \in {"Num", "Bool"} :
     \E id \in DOMAIN docs :
        \/ \E a \in DocActions(docs[id]) :
              /\ a.a = IF t = "Num" THEN "ModNum" ELSE "ToggleBool"
              /\ a.name = n
        \/ t = "Num" /\ \E c \in DocConditions(docs[id]) : OrdersOn(c, n)}

\* the load failed with the wrong-variable-type error, whose value names a
\* declared variable, gives the tag of its declaration as the actual type
\* and a different tag the documents require of it as the expected type
WrongTypeValue ==
  /\ phase = "failed" /\ load_result.e = "BadVariableType"
  /\ load_result.var_name \in DOMAIN settings.variables
  /\ load_result.var_type = type_(settings.variables[load_result.var_name])
  /\ load_result.expected \in RequiredTags(load_result.var_name)
  /\ load_result.expected # load_result.var_type

\* C38: the wrong-variable-type load error reports the types the right way
\* round: for a variable declared with tag T and an action or comparator
\* requiring tag R (T # R) the error names the variable, gives R as the
\* expected type and T as the actual type, in the error value and in its
\* message ("expected a R, but got a T").
C38_WrongTypeReported ==
  load_result.e = "BadVariableType" =>
     /\ WrongTypeValue
     /\ to_string_vec(load_result) =
          << <<"variable ", load_result.var_name, " has wrong type">>,
             <<"expected a ", VarType_Display(load_result.expected),
               ", but got a ", VarType_Display(load_result.var_type)>> >>

====
